---- MODULE Spec2Model ----
(***************************************************************************)
(* Wallet challenge-response authentication of the deorganized backend:    *)
(* users/wallet_auth.py (WalletAuthViewSet.nonce / .verify) on top of      *)
(* users/crypto_utils.py (verify_stacks_signature).                        *)
(*                                                                         *)
(* The two HTTP handlers run concurrently in separate workers.  The only   *)
(* shared state is the Django cache (one entry per wallet address, with a  *)
(* timeout) and the user table.  nonce touches the cache once (cache.set); *)
(* verify touches it twice (cache.get, later cache.delete) and then the    *)
(* user table (get_or_create: a get, and a create if the get found no row), *)
(* so verify is modelled as four steps with other requests and the clock   *)
(* free to run in between.                                                 *)
(***************************************************************************)
EXTENDS Integers, Sequences, FiniteSets, TLC

\* ---------------------------------------------------------------- bounds
NumProcs == 2      \* workers that serve verify requests side by side
MaxIssue == 2      \* nonce requests in a run
MaxTime == 450     \* the clock stops here
TickSeconds == 150 \* seconds that pass in one clock step
MaxBytes == 2      \* longest byte string given to c32_encode
MaxChars == 2      \* longest text given to c32_decode
MaxSigBytes == 67  \* longest signature, in bytes, given to the parser
MaxCalls == 3      \* calls of a handler on one show or article in a run
MaxBeats == 14     \* beats of the task schedule in a run

\* ---------------------------------------------------- program constants
NONCE_EXPIRATION == 300

\* "Runs every 5 minutes via Celery Beat."
BeatMinutes == 5

\* Python's None, where a record or nothing is held.
None == [none |-> TRUE]

Procs == 1..NumProcs

\* Key pairs of the wallets in play; a key nobody holds for garbage bytes.
Keys == {"K1", "K2"}
NoKey == "nokey"
JunkKey == "KX"

VARIABLES
  clock,    \* time.time(), seconds
  cache,    \* django cache: wallet address -> entry or None
  issued,   \* the challenges handed out so far, in order (challenge n = issued[n])
  users,    \* the User table: rows [id, stacks_address]
  pc,       \* per worker: "idle", or where its verify request is: "read",
            \* "lookup", "create"
  req,      \* per worker: the validated data of the request in hand
  cached,   \* per worker: cached_data, what cache.get returned
  account,  \* per worker: the row get_or_create found at first, or None
  resp,     \* the response the last step sent, with its request (NoResp: none);
            \* in CryptoSpec: the value the function called last returned
  spent,    \* challenges some verify request read and then called cache.delete
  usedAt    \* per challenge: how many challenges had been issued when a
            \* successful verify on it deleted / returned (0: none yet)

\* The tables and workers of the shows and news apps.
VARIABLES
  now,            \* timezone.now(), minutes
  shows,          \* the Show table: slug -> row
  reminders,      \* the ShowReminder table: a set of rows
  notifications,  \* the Notification table: rows in the order of creation
  articles,       \* the News table: pk -> row
  job,            \* per worker: the local variables of the handler or task
                  \* it is running
  completed       \* per handler: how often it has run to its end

contentVars == <<now, shows, reminders, notifications, articles, job, completed>>

\* The tables of likes, comments and events.
VARIABLES
  likes,          \* the Like table: a set of rows
  comments,       \* the Comment table: a set of rows
  events          \* the Event table: a set of rows

socialVars == <<likes, comments, events>>

vars == <<clock, cache, issued, users, pc, req, cached, account, resp, spent, usedAt,
          now, shows, reminders, notifications, articles, job, completed,
          likes, comments, events>>

\* ------------------------------------------------------------ data shapes
\* The largest clock value a run reaches.
LastTick == (MaxTime \div TickSeconds) * TickSeconds

\* derive_stacks_address: prefix by network, payload determined by the key
\* (hash160 and checksum are functions of the key bytes and the version).
DeriveStacksAddress(public_key, testnet) ==
  <<IF testnet THEN "ST" ELSE "SP", public_key>>

\* The wallet addresses clients use: K1 on mainnet, K2 on testnet.
Addrs == {DeriveStacksAddress("K1", FALSE), DeriveStacksAddress("K2", TRUE)}

\* 'INVALID_WALLET': a text without the SP/ST prefix (its payload is that of
\* K1's address).
BadAddr == <<"XX", "K1">>
AllAddrs == Addrs \cup {BadAddr}

\* The address the concurrent requests of Spec are about.
RaceAddrs == {DeriveStacksAddress("K1", FALSE)}

\* A text that leaves the nonce out.
BuildMessageWithoutNonce(wallet_address, nonce, timestamp) ==
  [wallet |-> wallet_address, nonce |-> 0, timestamp |-> timestamp]

\* The f-string of nonce(): the text is determined by wallet, nonce, timestamp.
BuildMessage(wallet_address, nonce, timestamp) ==
  [wallet |-> wallet_address, nonce |-> nonce, timestamp |-> timestamp]

\* A text no challenge ever had ("Message with wrong nonce").
OtherMessage == [wallet |-> "none", nonce |-> 0, timestamp |-> 0]

\* The message of the n-th challenge handed out.
IssuedMessage(n) == BuildMessage(issued[n].wallet, n, issued[n].timestamp)

\* The key pair a wallet address belongs to.
OwnerKey(wallet_address) == wallet_address[2]

\* A submitted signature string: whether it is hexadecimal, how many bytes it
\* decodes to, and what its trailing 64 bytes are: an ECDSA signature made
\* with `key` over `msg` (key = NoKey: bytes no key produced).
Signature(hex, nbytes, key, msg) ==
  [hex |-> hex, nbytes |-> nbytes, key |-> key, msg |-> msg]

SignedBy(key, msg) == Signature(TRUE, 65, key, msg)
ShortSig == Signature(TRUE, 2, NoKey, OtherMessage)    \* "0x1234"
MockSig == Signature(TRUE, 64, NoKey, OtherMessage)    \* "0x" + "a" * 128
NotHexSig == Signature(FALSE, 0, NoKey, OtherMessage)  \* "0xzz"

\* Where the crypto library raises an error unrelated to the input, if at all.
Faults == {"none", "recover", "compact"}

\* --------------------------------------------------------- crypto_utils.py
\* _hash_stacks_message: SHA-256 of the text, no prefix; collision-free.
HashStacksMessage(message) == <<"sha256", message>>

\* _parse_stacks_connect_signature: None, or the 64 bytes r+s with
\* recovery_id None.
ParseStacksConnectSignature(signature) ==
  IF ~signature.hex THEN None
  ELSE IF signature.nbytes = 65 \/ signature.nbytes = 64 \/ signature.nbytes > 65
    THEN [signature |-> [key |-> signature.key, msg |-> signature.msg],
          recovery_id |-> None]
    ELSE None

Raise == "raise"

\* The recovery id under which a signature of `key` recovers `key`.
RecoveryIdOf(key) == IF key = "K1" THEN 1 ELSE 0

\* PublicKey.from_signature_and_message(r + s + rec_id, message_hash).
RecoverPublicKey(sig_bytes, rec_id, message_hash, fault) ==
  IF fault = "recover" THEN Raise
  ELSE IF rec_id >= 2 THEN Raise
  ELSE IF sig_bytes.key # NoKey /\ HashStacksMessage(sig_bytes.msg) = message_hash
          /\ rec_id = RecoveryIdOf(sig_bytes.key)
    THEN sig_bytes.key
    ELSE JunkKey

\* public_key.verify_compact(sig_bytes, message_hash)
VerifyCompact(public_key, sig_bytes, message_hash, fault) ==
  IF fault = "compact" THEN [raised |-> TRUE, value |-> FALSE]
  ELSE [raised |-> FALSE,
        value |-> sig_bytes.key = public_key
                  /\ HashStacksMessage(sig_bytes.msg) = message_hash]

\* The recovery ids of the loop whose key derives the wallet address on
\* mainnet or testnet.
MatchingRecIds(sig_bytes, message_hash, wallet_address, fault) ==
  {rec_id \in 0..3 :
     LET pk == RecoverPublicKey(sig_bytes, rec_id, message_hash, fault)
     IN  pk # Raise /\ \E is_testnet \in BOOLEAN :
            DeriveStacksAddress(pk, is_testnet) = wallet_address}

\* The format-only check of users/utils.py in its place: any hexadecimal
\* string of more than 64 characters passes.
VerifyStacksSignatureFormatOnly(wallet_address, message, signature, fault) ==
  /\ wallet_address[1] = "SP" \/ wallet_address[1] = "ST"
  /\ signature.hex
  /\ 2 + 2 * signature.nbytes > 64

\* A check of the key behind the address that does not look at the prefix.
VerifyStacksSignatureAnyPrefix(wallet_address, message, signature, fault) ==
  /\ signature.hex /\ signature.nbytes >= 64
  /\ signature.key = OwnerKey(wallet_address)
  /\ signature.msg = message

VerifyStacksSignature(wallet_address, message, signature, fault) ==
  IF ~(wallet_address[1] = "SP" \/ wallet_address[1] = "ST") THEN FALSE
  ELSE
    LET sig_data == ParseStacksConnectSignature(signature)
    IN  IF sig_data = None THEN FALSE
        ELSE
          LET sig_bytes == sig_data.signature
              message_hash == HashStacksMessage(message)
              matches == MatchingRecIds(sig_bytes, message_hash, wallet_address, fault)
          IN  IF matches = {} THEN FALSE
              ELSE
                LET matched_recovery_id ==
                      CHOOSE i \in matches : \A j \in matches : i <= j
                    public_key ==
                      RecoverPublicKey(sig_bytes, matched_recovery_id, message_hash, fault)
                    is_valid == VerifyCompact(public_key, sig_bytes, message_hash, fault)
                IN  IF is_valid.raised THEN FALSE ELSE is_valid.value

\* ------------------------------------------------------------ the cache
\* cache.add in place of cache.set: an entry still stored is kept.
CacheSetIfAbsent(c, key, value, timeout) ==
  IF c[key] # None /\ clock < c[key].expires THEN c
  ELSE [c EXCEPT ![key] = [value |-> value, expires |-> clock + timeout]]

\* cache.set with timeout=None: the entry never expires.
CacheSetNoTimeout(c, key, value, timeout) ==
  [c EXCEPT ![key] = [value |-> value, expires |-> MaxTime + timeout]]

CacheSet(c, key, value, timeout) ==
  [c EXCEPT ![key] = [value |-> value, expires |-> clock + timeout]]

\* An entry still returned at the instant it expires.
CacheGetInclusive(c, key) ==
  IF c[key] # None /\ clock <= c[key].expires THEN c[key].value ELSE None

CacheGet(c, key) ==
  IF c[key] # None /\ clock < c[key].expires THEN c[key].value ELSE None

\* cache.clear() in place of cache.delete: every entry goes.
CacheClear(c, key) == [k \in DOMAIN c |-> None]

\* cache.delete left out.
CacheDeleteMissing(c, key) == c

CacheDelete(c, key) == [c EXCEPT ![key] = None]

\* cache.delete left out of the invalid-signature branch.
DeleteOnBranchNotSignature(error, c, key) ==
  IF error = "Invalid signature. Signature verification failed." THEN c
  ELSE [c EXCEPT ![key] = None]

\* The cache.delete(cache_key) of the branch of verify() that returns `error`
\* ("": the success branch).
DeleteOnBranch(error, c, key) == CacheDelete(c, key)

\* ------------------------------------------------------------- responses
ErrNonce == "Invalid or expired nonce. Please request a new authentication message."
ErrMessage == "Message does not match the issued nonce. Please request a new nonce."
ErrNonceInMessage == "Invalid nonce in message"
ErrSignature == "Invalid signature. Signature verification failed."

ErrInvalidAddress == "InvalidAddress"

NoResp == [kind |-> "none"]

\* RefreshToken.for_user(user): the access and refresh tokens of the account.
RefreshTokenForUser(user) == [access |-> user.id, refresh |-> user.id]

\* The Response of verify(), with the request it answers; user: the account
\* it describes, tokens: the credentials issued for it (None in an error
\* response).
VerifyResponse(p, r, cached_data, status, error, user, is_new) ==
  [kind |-> "verify", proc |-> p, req |-> r, cached |-> cached_data,
   status |-> status, error |-> error, user |-> user, is_new |-> is_new,
   tokens |-> IF user = None THEN None ELSE RefreshTokenForUser(user)]

\* The Response of nonce() to the request for wallet_address: its data are
\* the two keys 'message' and 'expires_in'.
NonceResponse(wallet_address, message) ==
  [kind |-> "nonce", wallet_address |-> wallet_address, status |-> 200,
   data |-> [message |-> message, expires_in |-> NONCE_EXPIRATION]]

\* The 400 Response of serializer.is_valid(raise_exception=True) in nonce().
NonceInvalidResponse(wallet_address) ==
  [kind |-> "nonce", wallet_address |-> wallet_address, status |-> 400,
   data |-> [error |-> ErrInvalidAddress]]

\* ----------------------------------------------------------------- Init
NoReq == [wallet_address |-> <<"", "">>, message |-> OtherMessage,
          signature |-> NotHexSig, fault |-> "none"]

Challenges == 1..MaxIssue

\* ------------------------------------------------- shows and news: data
ShowIds == {"s1", "s2"}
ArticleIds == {"n1"}
Creator == "creator"

\* A Show row as far as the tasks and views below read or write it.
\* air_dates: the dates for which should_air_on_date(date) is true.
ShowRow(is_recurring, show_status, scheduled_time, recurrence_type, air_dates) ==
  [is_recurring |-> is_recurring, status |-> show_status,
   scheduled_time |-> scheduled_time, recurrence_type |-> recurrence_type,
   air_dates |-> air_dates, creator |-> Creator,
   share_count |-> 0, cancelled_instances |-> {}]

\* Time is counted in minutes from 00:00 of day 0; a run starts at 23:15.
DayMinutes == 24 * 60
StartMinute == DayMinutes - 45
LastMinute == StartMinute + MaxBeats * BeatMinutes
DateOf(datetime) == datetime \div DayMinutes

\* scheduled_time is None; recurrence_type is None or ''.
NoTime == 0 - 1
NoRecurrence == ""

\* A show that is on every day at 00:30.
PlainShow == ShowRow(TRUE, "published", 30, "DAILY", {0, 1})

\* The shows there can be: on at 23:55, 23:58 or 00:05 on both days or on
\* day 1 only, or short of one of the four conditions of a reminder.
ShowConfigs ==
  {ShowRow(TRUE, "published", t, "WEEKLY", d) :
     t \in {DayMinutes - 5, DayMinutes - 2, 5}, d \in {{0, 1}, {1}}}
    \cup {ShowRow(FALSE, "published", 5, "WEEKLY", {0, 1}),
          ShowRow(TRUE, "draft", 5, "WEEKLY", {0, 1}),
          ShowRow(TRUE, "published", NoTime, "WEEKLY", {0, 1}),
          ShowRow(TRUE, "published", 5, NoRecurrence, {0, 1})}

\* A News row: view_count (default 0) and, for the fields next to it, the
\* title with its slug.
NewsRow(title) == [title |-> title, slug |-> title, view_count |-> 0]

\* A worker that runs no handler or task.
IdleJob == [op |-> "none"]

\* The objects whose calls are counted.
Targets == ShowIds \cup ArticleIds

\* The tables at the start: two shows, one article, no reminder, no
\* notification.
ContentInit ==
  /\ now = StartMinute
  /\ shows = [s \in ShowIds |-> PlainShow]
  /\ reminders = {}
  /\ notifications = <<>>
  /\ articles = [a \in ArticleIds |-> NewsRow("t0")]
  /\ job = [p \in Procs |-> IdleJob]
  /\ completed = [t \in Targets |-> 0]

WalletInit ==
  /\ clock = 0
  /\ cache = [a \in AllAddrs |-> None]
  /\ issued = <<>>
  /\ users = {}
  /\ pc = [p \in Procs |-> "idle"]
  /\ req = [p \in Procs |-> NoReq]
  /\ cached = [p \in Procs |-> None]
  /\ account = [p \in Procs |-> None]
  /\ resp = NoResp
  /\ spent = {}
  /\ usedAt = [n \in Challenges |-> [deleted |-> 0, returned |-> 0]]

\* No like, no comment, no event.
SocialInit ==
  /\ likes = {}
  /\ comments = {}
  /\ events = {}

Init == WalletInit /\ ContentInit /\ SocialInit

\* -------------------------------------------------------------- actions
\* Time passes.
Tick ==
  /\ clock + TickSeconds <= MaxTime
  /\ clock' = clock + TickSeconds
  /\ resp' = NoResp
  /\ UNCHANGED <<cache, issued, users, pc, req, cached, account, spent, usedAt>>
  /\ UNCHANGED contentVars
  /\ UNCHANGED socialVars

\* A validation that lets every text pass.
WalletAddressAny(wallet_address) == TRUE

\* WalletNonceRequestSerializer: the wallet address has the network prefix
\* shape.
WalletAddressValid(wallet_address) ==
  wallet_address[1] = "SP" \/ wallet_address[1] = "ST"

\* WalletAuthViewSet.nonce
Nonce(wallet_address) ==
  /\ IF ~WalletAddressValid(wallet_address)
       THEN /\ resp' = NonceInvalidResponse(wallet_address)
            /\ UNCHANGED <<cache, issued>>
       ELSE
         /\ Len(issued) < MaxIssue
         /\ clock + NONCE_EXPIRATION <= LastTick
         /\ LET nonce == Len(issued) + 1
                timestamp == clock
                message == BuildMessage(wallet_address, nonce, timestamp)
            IN  /\ cache' = CacheSet(cache, wallet_address,
                               [nonce |-> nonce, timestamp |-> timestamp, message |-> message],
                               NONCE_EXPIRATION)
                /\ issued' = Append(issued, [wallet |-> wallet_address, timestamp |-> timestamp])
                /\ resp' = NonceResponse(wallet_address, message)
  /\ UNCHANGED <<clock, users, pc, req, cached, account, spent, usedAt>>
  /\ UNCHANGED contentVars
  /\ UNCHANGED socialVars

\* The checks with the signature looked at before the message.
FailedCheckSignatureFirst(cached_data, r) ==
  IF cached_data = None THEN ErrNonce
  ELSE IF ~VerifyStacksSignature(r.wallet_address, r.message, r.signature, r.fault)
    THEN ErrSignature
  ELSE IF cached_data.message # r.message THEN ErrMessage
  ELSE IF cached_data.nonce # r.message.nonce THEN ErrNonceInMessage
  ELSE ""

\* The checks without the signature.
FailedCheckWithoutSignature(cached_data, r) ==
  IF cached_data = None THEN ErrNonce
  ELSE IF cached_data.message # r.message THEN ErrMessage
  ELSE IF cached_data.nonce # r.message.nonce THEN ErrNonceInMessage
  ELSE ""

\* The error verify() returns for what cache.get returned; "" when every
\* check passes.
FailedCheck(cached_data, r) ==
  IF cached_data = None THEN ErrNonce
  ELSE IF cached_data.message # r.message THEN ErrMessage
  ELSE IF cached_data.nonce # r.message.nonce THEN ErrNonceInMessage
  ELSE IF ~VerifyStacksSignature(r.wallet_address, r.message, r.signature, r.fault)
    THEN ErrSignature
  ELSE ""

StatusOf(error) == IF error = ErrSignature THEN 401 ELSE 400

\* What a client can submit: a message it was given, or another text; a
\* signature by some key over that message or over another text, or bytes no
\* key made.  The crypto library can only fail where it is reached: on a
\* signature some key made.
IssuedMessages == {IssuedMessage(n) : n \in 1..Len(issued)}
MessageInputs == IssuedMessages \cup {OtherMessage}
KeySignatures(message) == {SignedBy(k, message) : k \in Keys}
SignatureInputs(message) ==
  KeySignatures(message) \cup {SignedBy("K1", OtherMessage)}
    \cup {ShortSig, MockSig, NotHexSig}
FaultInputs(signature) == IF signature.key \in Keys THEN Faults ELSE {"none"}

\* WalletAuthViewSet.verify, up to and including cache.get
VerifyGet(p, wallet_address, message, signature, fault) ==
  /\ pc[p] = "idle"
  /\ \A q \in Procs : q < p => pc[q] # "idle"
  /\ LET r == [wallet_address |-> wallet_address, message |-> message,
               signature |-> signature, fault |-> fault]
         cached_data == CacheGet(cache, wallet_address)
     IN  IF cached_data = None
           THEN /\ resp' = VerifyResponse(p, r, cached_data, 400, ErrNonce, None, FALSE)
                /\ UNCHANGED <<pc, req, cached>>
           ELSE /\ pc' = [pc EXCEPT ![p] = "read"]
                /\ req' = [req EXCEPT ![p] = r]
                /\ cached' = [cached EXCEPT ![p] = cached_data]
                /\ resp' = NoResp
  /\ UNCHANGED <<clock, cache, issued, users, account, spent, usedAt>>
  /\ UNCHANGED contentVars
  /\ UNCHANGED socialVars

\* verify: the checks on the data read, then cache.delete on every branch
VerifyDelete(p) ==
  /\ pc[p] = "read"
  /\ spent' = spent \cup {cached[p].nonce}
  /\ LET error == FailedCheck(cached[p], req[p])
     IN  /\ cache' = DeleteOnBranch(error, cache, req[p].wallet_address)
         /\ IF error # ""
              THEN /\ pc' = [pc EXCEPT ![p] = "idle"]
                   /\ req' = [req EXCEPT ![p] = NoReq]
                   /\ cached' = [cached EXCEPT ![p] = None]
                   /\ resp' = VerifyResponse(p, req[p], cached[p],
                                             StatusOf(error), error, None, FALSE)
                   /\ UNCHANGED usedAt
              ELSE /\ pc' = [pc EXCEPT ![p] = "lookup"]
                   /\ usedAt' = [usedAt EXCEPT ![cached[p].nonce].deleted = Len(issued)]
                   /\ resp' = NoResp
                   /\ UNCHANGED <<req, cached>>
  /\ UNCHANGED <<clock, issued, users, account>>
  /\ UNCHANGED contentVars
  /\ UNCHANGED socialVars

\* User.objects.get(stacks_address=...): the row, or None (DoesNotExist).
UserGet(rows, stacks_address) ==
  IF \E u \in rows : u.stacks_address = stacks_address
    THEN CHOOSE u \in rows : u.stacks_address = stacks_address
    ELSE None

\* An insert that no constraint stops.
UserCreateUnconstrained(rows, stacks_address) ==
  rows \cup {[id |-> Cardinality(rows) + 1, stacks_address |-> stacks_address]}

\* The create of get_or_create: stacks_address is unique in the table, so the
\* insert adds a row only if the address has none (else IntegrityError, and
\* the table is as it was).
UserCreate(rows, stacks_address) ==
  IF UserGet(rows, stacks_address) # None THEN rows
  ELSE rows \cup {[id |-> Cardinality(rows) + 1, stacks_address |-> stacks_address]}

\* verify: get_or_create begins with User.objects.get
VerifyLookup(p) ==
  /\ pc[p] = "lookup"
  /\ account' = [account EXCEPT ![p] = UserGet(users, req[p].wallet_address)]
  /\ pc' = [pc EXCEPT ![p] = "create"]
  /\ resp' = NoResp
  /\ UNCHANGED <<clock, cache, issued, users, req, cached, spent, usedAt>>
  /\ UNCHANGED contentVars
  /\ UNCHANGED socialVars

\* verify: the rest of get_or_create (create, and get again after an
\* IntegrityError), tokens, the 200 response
VerifyCreate(p) ==
  /\ pc[p] = "create"
  /\ LET stacks_address == req[p].wallet_address
         rows == IF account[p] # None THEN users
                 ELSE UserCreate(users, stacks_address)
         created == rows # users
         user == IF account[p] # None THEN account[p]
                 ELSE IF created THEN CHOOSE u \in rows : u \notin users
                 ELSE UserGet(rows, stacks_address)
     IN  /\ users' = rows
         /\ resp' = VerifyResponse(p, req[p], cached[p], 200, "", user, created)
  /\ usedAt' = [usedAt EXCEPT ![cached[p].nonce].returned = Len(issued)]
  /\ pc' = [pc EXCEPT ![p] = "idle"]
  /\ req' = [req EXCEPT ![p] = NoReq]
  /\ cached' = [cached EXCEPT ![p] = None]
  /\ account' = [account EXCEPT ![p] = None]
  /\ UNCHANGED <<clock, cache, issued, spent>>
  /\ UNCHANGED contentVars
  /\ UNCHANGED socialVars

\* The signatures of the concurrent requests: the wallet's own over the
\* message, and for the message issued last (the only one the signature check
\* can be reached with) also another key's.
RaceSignatures(message) ==
  IF message.nonce = Len(issued) THEN KeySignatures(message)
  ELSE {SignedBy(OwnerKey(message.wallet), message)}

\* Concurrent requests about one wallet: the workers each submit a message
\* that was issued.
Next ==
  \/ Tick
  \/ \E a \in RaceAddrs : Nonce(a)
  \/ \E p \in Procs, a \in RaceAddrs : \E m \in IssuedMessages :
       \E s \in RaceSignatures(m) : VerifyGet(p, a, m, s, "none")
  \/ \E p \in Procs : VerifyDelete(p)
  \/ \E p \in Procs : VerifyLookup(p)
  \/ \E p \in Procs : VerifyCreate(p)

Spec == Init /\ [][Next]_vars

\* Concurrent requests that each carry the wallet's own signature over the
\* message issued first or the one issued last, while time does pass.
LapseNext ==
  \/ Tick
  \/ \E a \in RaceAddrs : Nonce(a)
  \/ \E p \in Procs, a \in RaceAddrs :
       \E m \in {IssuedMessage(n) : n \in {1, Len(issued)} \cap 1..Len(issued)} :
         VerifyGet(p, a, m, SignedBy(OwnerKey(a), m), "none")
  \/ \E p \in Procs : VerifyDelete(p)
  \/ \E p \in Procs : VerifyLookup(p)
  \/ \E p \in Procs : VerifyCreate(p)

FairSpec == Init /\ [][LapseNext]_vars /\ WF_vars(Tick)

\* One request at a time, about either wallet, with every kind of input.
SeqNext ==
  \/ Tick
  \/ \E a \in Addrs : Nonce(a)
  \/ \E a \in Addrs : \E m \in MessageInputs :
       \E s \in SignatureInputs(m) : \E f \in FaultInputs(s) : VerifyGet(1, a, m, s, f)
  \/ VerifyDelete(1)
  \/ VerifyLookup(1)
  \/ VerifyCreate(1)

SeqSpec == Init /\ [][SeqNext]_vars

\* What the requests about several wallets carry: the message issued last
\* to the holder of the wallet's key, signed by that key, or the mock
\* signature.
WalletMessages(wallet_address) ==
  {IssuedMessage(n) : n \in {k \in 1..Len(issued) :
       /\ OwnerKey(issued[k].wallet) = OwnerKey(wallet_address)
       /\ \A j \in (k + 1)..Len(issued) :
            OwnerKey(issued[j].wallet) # OwnerKey(wallet_address)}}
WalletSignatures(wallet_address, message) ==
  {SignedBy(OwnerKey(wallet_address), message), MockSig}

\* No worker has a verify request for the wallet in hand.
NotInHand(wallet_address) ==
  \A q \in Procs : pc[q] = "idle" \/ req[q].wallet_address # wallet_address

\* Concurrent requests about different wallets, one of them a text that is
\* no address; the requests in hand at one time are about different wallets.
WalletsNext ==
  \/ \E a \in AllAddrs : Nonce(a)
  \/ \E p \in Procs, a \in AllAddrs : \E m \in WalletMessages(a) :
       \E s \in WalletSignatures(a, m) :
         NotInHand(a) /\ VerifyGet(p, a, m, s, "none")
  \/ \E p \in Procs : VerifyDelete(p)
  \/ \E p \in Procs : VerifyLookup(p)
  \/ \E p \in Procs : VerifyCreate(p)

WalletsSpec == Init /\ [][WalletsNext]_vars

walletVars == <<clock, cache, issued, users, pc, req, cached, account, spent, usedAt>>

\* ---------------------------------- shows/tasks.py: check_upcoming_shows
\* The ShowReminder row of a show instance as the task creates it.
ReminderRow(id, slug, scheduled_for, reminder_sent_at) ==
  [id |-> id, show |-> slug, scheduled_for |-> scheduled_for,
   reminder_sent_at |-> reminder_sent_at,
   creator_response |-> "PENDING", responded_at |-> NoTime]

NotificationRow(notification_type, recipient) ==
  [notification_type |-> notification_type, recipient |-> recipient,
   actor |-> recipient]

\* A create without the get before it.
CreateReminder(rows, slug, scheduled_for, reminder_sent_at) ==
  [rows |-> rows \cup {ReminderRow(Cardinality(rows) + 1, slug, scheduled_for,
                                   reminder_sent_at)},
   created |-> TRUE]

\* ShowReminder.objects.get_or_create(show=, scheduled_for=, defaults=)
GetOrCreateReminder(rows, slug, scheduled_for, reminder_sent_at) ==
  IF \E r \in rows : r.show = slug /\ r.scheduled_for = scheduled_for
    THEN [rows |-> rows, created |-> FALSE]
    ELSE [rows |-> rows \cup {ReminderRow(Cardinality(rows) + 1, slug,
                                          scheduled_for, reminder_sent_at)},
          created |-> TRUE]

\* The body of the inner loop for one show of the queryset and one
\* minutes_ahead, on the tables as they are at that point of the run.
CheckShowAhead(tables, slug, minutes_ahead) ==
  LET show == shows[slug]
      check_datetime == now + minutes_ahead
      check_date == DateOf(check_datetime)
      scheduled_datetime == check_date * DayMinutes + show.scheduled_time
      time_until_show == scheduled_datetime - now
  IN  IF show.scheduled_time = NoTime \/ show.recurrence_type = NoRecurrence
        THEN tables
      ELSE IF check_date \notin show.air_dates THEN tables
      ELSE IF ~(25 <= time_until_show /\ time_until_show <= 35) THEN tables
      ELSE
        LET got == GetOrCreateReminder(tables.reminders, slug,
                                       scheduled_datetime, now)
        IN  [reminders |-> got.rows,
             notifications |->
               IF got.created
                 THEN Append(tables.notifications,
                             NotificationRow("show_reminder", show.creator))
                 ELSE tables.notifications]

\* The loops of the task: the shows of the queryset, and for each
\* range(25, 36, 5).
RECURSIVE CheckShows(_, _)
CheckShows(tables, todo) ==
  IF todo = <<>> THEN tables
  ELSE CheckShows(CheckShowAhead(tables, todo[1][1], todo[1][2]), Tail(todo))

\* Show.objects.filter(is_recurring=True, status='published'), each show
\* with the three values of minutes_ahead.
RecurringShows ==
  {slug \in ShowIds : shows[slug].is_recurring /\ shows[slug].status = "published"}
RunOrder ==
  (IF "s1" \in RecurringShows THEN <<<<"s1", 25>>, <<"s1", 30>>, <<"s1", 35>>>> ELSE <<>>)
    \o (IF "s2" \in RecurringShows THEN <<<<"s2", 25>>, <<"s2", 30>>, <<"s2", 35>>>> ELSE <<>>)

\* One run of check_upcoming_shows.
CheckUpcomingShows ==
  /\ LET tables == CheckShows([reminders |-> reminders,
                               notifications |-> notifications], RunOrder)
     IN  /\ reminders' = tables.reminders
         /\ notifications' = tables.notifications
         /\ resp' = [kind |-> "check_upcoming_shows", at |-> now,
                     created |-> Cardinality(tables.reminders)
                                   - Cardinality(reminders)]
  /\ UNCHANGED <<now, shows, articles, job, completed>>
  /\ UNCHANGED walletVars
  /\ UNCHANGED socialVars

\* The next beat of the schedule.
Beat ==
  /\ now + BeatMinutes <= LastMinute
  /\ now' = now + BeatMinutes
  /\ resp' = NoResp
  /\ UNCHANGED <<shows, reminders, notifications, articles, job, completed>>
  /\ UNCHANGED walletVars
  /\ UNCHANGED socialVars

\* The shows are any of those there can be.
RemindInit ==
  /\ WalletInit
  /\ SocialInit
  /\ now = StartMinute
  /\ shows \in [ShowIds -> ShowConfigs]
  /\ reminders = {}
  /\ notifications = <<>>
  /\ articles = [a \in ArticleIds |-> NewsRow("t0")]
  /\ job = [p \in Procs |-> IdleJob]
  /\ completed = [t \in Targets |-> 0]

RemindNext == CheckUpcomingShows \/ Beat

RemindSpec == RemindInit /\ [][RemindNext]_vars

\* ------------------- shows/tasks.py: auto_cancel_unconfirmed_shows, and
\* ----------------------------------- shows/views.py: respond_to_reminder
\* The calls of a handler on target that began (in hand or run to the end).
Begun(op, target) ==
  completed[target]
    + Cardinality({p \in Procs : job[p].op = op /\ job[p].target = target})

\* The rows of a queryset as a list, in the order of their ids.
RECURSIVE ById(_)
ById(rows) ==
  IF rows = {} THEN <<>>
  ELSE LET first == CHOOSE r \in rows : \A o \in rows : r.id <= o.id
       IN  <<first>> \o ById(rows \ {first})

\* reminder.save(): every column of the row with this id is written from
\* the instance.
SaveReminder(rows, reminder) ==
  {IF r.id = reminder.id THEN reminder ELSE r : r \in rows}

\* The task up to the start of its loop: now, and the queryset of the
\* PENDING reminders that are due, each with its show (select_related).
AutoCancelQuery(p) ==
  /\ job[p] = IdleJob
  /\ \A q \in Procs : q < p => job[q] # IdleJob
  /\ LET pending_reminders ==
           {r \in reminders : r.creator_response = "PENDING" /\ r.scheduled_for <= now}
     IN  job' = [job EXCEPT ![p] =
                   [op |-> "auto_cancel", now_at |-> now,
                    todo |-> [i \in 1..Cardinality(pending_reminders) |->
                                [reminder |-> ById(pending_reminders)[i],
                                 show |-> shows[ById(pending_reminders)[i].show]]]]]
  /\ resp' = NoResp
  /\ UNCHANGED <<now, shows, reminders, notifications, articles, completed>>
  /\ UNCHANGED walletVars
  /\ UNCHANGED socialVars

\* One turn of the loop of the task: the reminder saved as CANCELLED, the
\* date added to the show's cancelled_instances, the notification; or, the
\* list at its end, the end of the task.
AutoCancelStep(p) ==
  /\ job[p].op = "auto_cancel"
  /\ IF job[p].todo = <<>>
       THEN /\ job' = [job EXCEPT ![p] = IdleJob]
            /\ resp' = [kind |-> "auto_cancel", now_at |-> job[p].now_at]
            /\ UNCHANGED <<shows, reminders, notifications>>
       ELSE
         LET reminder == [job[p].todo[1].reminder EXCEPT
                            !.creator_response = "CANCELLED",
                            !.responded_at = job[p].now_at]
             show == job[p].todo[1].show
             date_str == DateOf(reminder.scheduled_for)
         IN  /\ reminders' = SaveReminder(reminders, reminder)
             /\ shows' = IF date_str \notin show.cancelled_instances
                           THEN [shows EXCEPT ![reminder.show].cancelled_instances =
                                   show.cancelled_instances \cup {date_str}]
                           ELSE shows
             /\ notifications' = Append(notifications,
                                        NotificationRow("show_cancelled", show.creator))
             /\ job' = [job EXCEPT ![p].todo = Tail(@)]
             /\ resp' = NoResp
  /\ UNCHANGED <<now, articles, completed>>
  /\ UNCHANGED walletVars
  /\ UNCHANGED socialVars

\* respond_to_reminder up to ShowReminder.objects.get: the show, the
\* reminder of the instance, or 404.
RespondGet(p, slug, scheduled_for, response_type) ==
  /\ job[p] = IdleJob
  /\ \A q \in Procs : q < p => job[q] # IdleJob
  /\ Begun("respond", slug) < MaxCalls
  /\ IF \E r \in reminders : r.show = slug /\ r.scheduled_for = scheduled_for
       THEN /\ job' = [job EXCEPT ![p] =
                        [op |-> "respond", target |-> slug,
                         response_type |-> response_type,
                         show |-> shows[slug],
                         reminder |-> CHOOSE r \in reminders :
                            r.show = slug /\ r.scheduled_for = scheduled_for]]
            /\ resp' = NoResp
       ELSE /\ resp' = [kind |-> "respond", status |-> 404]
            /\ UNCHANGED job
  /\ UNCHANGED <<now, shows, reminders, notifications, articles, completed>>
  /\ UNCHANGED walletVars
  /\ UNCHANGED socialVars

\* respond_to_reminder from the assignment of creator_response on.
RespondSave(p) ==
  /\ job[p].op = "respond"
  /\ LET reminder == [job[p].reminder EXCEPT
                         !.creator_response = job[p].response_type,
                         !.responded_at = now]
         show == job[p].show
         date_str == DateOf(reminder.scheduled_for)
         cancelled == job[p].response_type = "CANCELLED"
     IN  /\ reminders' = SaveReminder(reminders, reminder)
         /\ shows' = IF cancelled /\ date_str \notin show.cancelled_instances
                       THEN [shows EXCEPT ![reminder.show].cancelled_instances =
                               show.cancelled_instances \cup {date_str}]
                       ELSE shows
         /\ notifications' = IF cancelled
                               THEN Append(notifications,
                                           NotificationRow("show_cancelled", show.creator))
                               ELSE notifications
         /\ resp' = [kind |-> "respond", status |-> 200, reminder |-> reminder]
  /\ job' = [job EXCEPT ![p] = IdleJob]
  /\ completed' = [completed EXCEPT ![job[p].target] = @ + 1]
  /\ UNCHANGED <<now, articles>>
  /\ UNCHANGED walletVars
  /\ UNCHANGED socialVars

\* The instances the creator answers for: those of the show that is on
\* first, at the time of its reminder and at a time there is none for.
AnsweredShows == {"s1"}
AnswerTimes == {r.scheduled_for : r \in {o \in reminders : o.show \in AnsweredShows}} \cup {0}

\* Midnight, one show on at 00:05 and one at 00:30, after the runs of
\* check_upcoming_shows that made the reminder of each.
CancelInit ==
  /\ WalletInit
  /\ SocialInit
  /\ now = DayMinutes
  /\ shows = [s \in ShowIds |->
                IF s = "s1" THEN ShowRow(TRUE, "published", 5, "DAILY", {0, 1})
                ELSE PlainShow]
  /\ reminders = {ReminderRow(1, "s1", DayMinutes + 5, DayMinutes - 30),
                  ReminderRow(2, "s2", DayMinutes + 30, DayMinutes - 5)}
  /\ notifications = <<NotificationRow("show_reminder", Creator),
                       NotificationRow("show_reminder", Creator)>>
  /\ articles = [a \in ArticleIds |-> NewsRow("t0")]
  /\ job = [p \in Procs |-> IdleJob]
  /\ completed = [t \in Targets |-> 0]

\* The task on the beat and the creator's answers, side by side.
CancelNext ==
  \/ Beat
  \/ \E p \in Procs : AutoCancelQuery(p)
  \/ \E p \in Procs : AutoCancelStep(p)
  \/ \E p \in Procs, slug \in AnsweredShows, t \in AnswerTimes :
       \E response_type \in {"CONFIRMED", "CANCELLED"} :
         RespondGet(p, slug, t, response_type)
  \/ \E p \in Procs : RespondSave(p)

CancelSpec == CancelInit /\ [][CancelNext]_vars

\* ------------------------------------------- shows/views.py: track_share

\* show.save(update_fields=['share_count']): the count of the instance in
\* hand goes to the row.
SaveShareCount(row, show) == [row EXCEPT !.share_count = show.share_count]

\* track_share: show = self.get_object()
TrackShareGet(p, slug) ==
  /\ job[p] = IdleJob
  /\ \A q \in Procs : q < p => job[q] # IdleJob
  /\ Begun("track_share", slug) < MaxCalls
  /\ job' = [job EXCEPT ![p] = [op |-> "track_share", target |-> slug,
                                show |-> shows[slug]]]
  /\ resp' = NoResp
  /\ UNCHANGED <<now, shows, reminders, notifications, articles, completed>>
  /\ UNCHANGED walletVars
  /\ UNCHANGED socialVars

\* track_share: show.share_count += 1, show.save(...), the Response
TrackShareSave(p) ==
  /\ job[p].op = "track_share"
  /\ LET slug == job[p].target
         show == [job[p].show EXCEPT !.share_count = @ + 1]
     IN  /\ shows' = [shows EXCEPT ![slug] = SaveShareCount(shows[slug], show)]
         /\ resp' = [kind |-> "track_share", target |-> slug, success |-> TRUE,
                     share_count |-> show.share_count]
         /\ completed' = [completed EXCEPT ![slug] = @ + 1]
  /\ job' = [job EXCEPT ![p] = IdleJob]
  /\ UNCHANGED <<now, reminders, notifications, articles>>
  /\ UNCHANGED walletVars
  /\ UNCHANGED socialVars

ShareNext ==
  \/ \E p \in Procs, slug \in ShowIds : TrackShareGet(p, slug)
  \/ \E p \in Procs : TrackShareSave(p)

ShareSpec == Init /\ [][ShareNext]_vars

\* ----------------------------------------- news/views.py: increment_view
\* A save that writes the count of the instance in hand, plus one.
SaveViewCountOfInstance(row, article) ==
  [row EXCEPT !.view_count = article.view_count + 1]

\* article.view_count = F('view_count') + 1 and save(update_fields=
\* ['view_count']): UPDATE ... SET view_count = view_count + 1.
SaveViewCount(row, article) == [row EXCEPT !.view_count = row.view_count + 1]

\* increment_view: article = self.get_object()
IncrementViewGet(p, pk) ==
  /\ job[p] = IdleJob
  /\ \A q \in Procs : q < p => job[q] # IdleJob
  /\ Begun("increment_view", pk) < MaxCalls
  /\ job' = [job EXCEPT ![p] = [op |-> "increment_view", target |-> pk,
                                at |-> "save", article |-> articles[pk]]]
  /\ resp' = NoResp
  /\ UNCHANGED <<now, shows, reminders, notifications, articles, completed>>
  /\ UNCHANGED walletVars
  /\ UNCHANGED socialVars

\* increment_view: the assignment of the F expression and article.save(...)
IncrementViewSave(p) ==
  /\ job[p].op = "increment_view" /\ job[p].at = "save"
  /\ articles' = [articles EXCEPT ![job[p].target] =
                    SaveViewCount(articles[job[p].target], job[p].article)]
  /\ job' = [job EXCEPT ![p].at = "refresh"]
  /\ resp' = NoResp
  /\ UNCHANGED <<now, shows, reminders, notifications, completed>>
  /\ UNCHANGED walletVars
  /\ UNCHANGED socialVars

\* increment_view: article.refresh_from_db() and the Response
IncrementViewRefresh(p) ==
  /\ job[p].op = "increment_view" /\ job[p].at = "refresh"
  /\ resp' = [kind |-> "increment_view", target |-> job[p].target,
              view_count |-> articles[job[p].target].view_count]
  /\ completed' = [completed EXCEPT ![job[p].target] = @ + 1]
  /\ job' = [job EXCEPT ![p] = IdleJob]
  /\ UNCHANGED <<now, shows, reminders, notifications, articles>>
  /\ UNCHANGED walletVars
  /\ UNCHANGED socialVars

\* The author changes the title of the article (update of the ModelViewSet).
EditArticle(pk, title) ==
  /\ articles[pk].title # title
  /\ articles' = [articles EXCEPT ![pk].title = title, ![pk].slug = title]
  /\ resp' = NoResp
  /\ UNCHANGED <<now, shows, reminders, notifications, job, completed>>
  /\ UNCHANGED walletVars
  /\ UNCHANGED socialVars

Titles == {"t0", "t1", "t2"}

ViewNext ==
  \/ \E p \in Procs, pk \in ArticleIds : IncrementViewGet(p, pk)
  \/ \E p \in Procs : IncrementViewSave(p)
  \/ \E p \in Procs : IncrementViewRefresh(p)
  \/ \E pk \in ArticleIds, title \in Titles : EditArticle(pk, title)

ViewSpec == Init /\ [][ViewNext]_vars

\* ------------------- users/wallet_auth.py: verify, the account's username
\* Wallet addresses as text: the first 8 characters and the rest.  Two of
\* them begin alike.
TextAddrs ==
  {[head |-> "SP2ABCDE", rest |-> "F1"], [head |-> "SP2ABCDE", rest |-> "F2"],
   [head |-> "SP3ZZZZZ", rest |-> "F3"]}

\* f'user_{wallet_address[:8]}' (counter 0) and f'{base_username}_{counter}'
Username(wallet_address, counter) == [base |-> wallet_address.head, counter |-> counter]

\* User.objects.filter(username=username).exists()
UsernameExists(rows, username) == \E u \in rows : u.username = username

\* verify after the second cache.delete: the arguments of get_or_create
\* are evaluated first, so _generate_username starts here at its first
\* candidate.
AccountBegin(p, wallet_address) ==
  /\ job[p] = IdleJob
  /\ \A q \in Procs : q < p => job[q] # IdleJob
  /\ \A q \in Procs : job[q].op = "verify" => job[q].wallet_address # wallet_address
  /\ job' = [job EXCEPT ![p] =
               [op |-> "verify", at |-> "generate", wallet_address |-> wallet_address,
                username |-> Username(wallet_address, 0)]]
  /\ resp' = NoResp
  /\ UNCHANGED <<now, shows, reminders, notifications, articles, completed>>
  /\ UNCHANGED <<clock, cache, issued, users, pc, req, cached, account, spent, usedAt>>
  /\ UNCHANGED socialVars

\* _generate_username: one test of the while loop, and its body or the
\* return.
GenerateUsernameStep(p) ==
  /\ job[p].op = "verify"
  /\ job[p].at = "generate"
  /\ job' = [job EXCEPT ![p] =
               IF UsernameExists(users, job[p].username)
                 THEN [job[p] EXCEPT !.username =
                         Username(job[p].wallet_address, job[p].username.counter + 1)]
                 ELSE [job[p] EXCEPT !.at = "get"]]
  /\ resp' = NoResp
  /\ UNCHANGED <<now, shows, reminders, notifications, articles, completed>>
  /\ UNCHANGED <<clock, cache, issued, users, pc, req, cached, account, spent, usedAt>>
  /\ UNCHANGED socialVars

\* The 200 response of verify as far as the account goes.
AccountResponse(wallet_address, user, created) ==
  [kind |-> "verify.account", wallet_address |-> wallet_address, status |-> 200,
   user |-> user, is_new |-> created]

\* An IntegrityError that get_or_create raises again: the request ends
\* with a server error.
AccountError(wallet_address) ==
  [kind |-> "verify.account", wallet_address |-> wallet_address, status |-> 500,
   error |-> "IntegrityError"]

\* get_or_create: the get.
AccountGet(p) ==
  /\ job[p].op = "verify"
  /\ job[p].at = "get"
  /\ IF UserGet(users, job[p].wallet_address) # None
       THEN /\ resp' = AccountResponse(job[p].wallet_address,
                                       UserGet(users, job[p].wallet_address), FALSE)
            /\ job' = [job EXCEPT ![p] = IdleJob]
       ELSE /\ resp' = NoResp
            /\ job' = [job EXCEPT ![p].at = "create"]
  /\ UNCHANGED <<now, shows, reminders, notifications, articles, completed>>
  /\ UNCHANGED <<clock, cache, issued, users, pc, req, cached, account, spent, usedAt>>
  /\ UNCHANGED socialVars

\* get_or_create: the create with the defaults; on IntegrityError
\* (stacks_address or username taken) the get again, and the error raised
\* again if that finds no row.
AccountCreate(p) ==
  /\ job[p].op = "verify"
  /\ job[p].at = "create"
  /\ LET wallet_address == job[p].wallet_address
         row == [id |-> Cardinality(users) + 1, stacks_address |-> wallet_address,
                 username |-> job[p].username]
     IN  IF UserGet(users, wallet_address) # None
           THEN /\ resp' = AccountResponse(wallet_address,
                                           UserGet(users, wallet_address), FALSE)
                /\ UNCHANGED users
         ELSE IF UsernameExists(users, job[p].username)
           THEN /\ resp' = AccountError(wallet_address)
                /\ UNCHANGED users
         ELSE /\ users' = users \cup {row}
              /\ resp' = AccountResponse(wallet_address, row, TRUE)
  /\ job' = [job EXCEPT ![p] = IdleJob]
  /\ UNCHANGED <<now, shows, reminders, notifications, articles, completed>>
  /\ UNCHANGED <<clock, cache, issued, pc, req, cached, account, spent, usedAt>>
  /\ UNCHANGED socialVars

AccountNext ==
  \/ \E p \in Procs, wallet_address \in TextAddrs : AccountBegin(p, wallet_address)
  \/ \E p \in Procs : GenerateUsernameStep(p)
  \/ \E p \in Procs : AccountGet(p)
  \/ \E p \in Procs : AccountCreate(p)

AccountSpec == Init /\ [][AccountNext]_vars

\* --------------------------------------------------- users/signals.py
\* The users who like and comment: the creator of show s1, the creator of
\* show s2, and one who has made nothing.
Fan == "fan"
OtherCreator == "creator2"
SocialUsers == {Creator, OtherCreator, Fan}

\* What a like or comment can point at: the two shows, the article, and a
\* show that is gone.
ContentKeys ==
  {[content_type |-> "show", object_id |-> "s1"],
   [content_type |-> "show", object_id |-> "s2"],
   [content_type |-> "news", object_id |-> "n1"],
   [content_type |-> "show", object_id |-> "gone"]}

\* instance.content_object: the row the generic key points at, None when
\* there is no such row.
ContentObject(instance) ==
  IF instance.content_type = "show" /\ instance.object_id \in DOMAIN shows
    THEN shows[instance.object_id]
  ELSE IF instance.content_type = "news" /\ instance.object_id \in DOMAIN articles
    THEN articles[instance.object_id]
  ELSE None

\* hasattr(content_object, 'creator')
HasCreator(content_object) == "creator" \in DOMAIN content_object

InteractionNotification(notification_type, instance) ==
  [notification_type |-> notification_type,
   recipient |-> ContentObject(instance).creator,
   actor |-> instance.user,
   content_type |-> instance.content_type,
   object_id |-> instance.object_id]

\* The handler without its first test.
CreateLikeNotificationOnEverySave(table, instance, created) ==
  IF ~HasCreator(ContentObject(instance)) THEN table
  ELSE IF instance.user = ContentObject(instance).creator THEN table
  ELSE Append(table, InteractionNotification("like", instance))

\* create_like_notification: the Notification table after the handler.
CreateLikeNotification(table, instance, created) ==
  IF ~created THEN table
  ELSE IF ~HasCreator(ContentObject(instance)) THEN table
  ELSE IF instance.user = ContentObject(instance).creator THEN table
  ELSE Append(table, InteractionNotification("like", instance))

\* create_comment_notification: the Notification table after the handler.
CreateCommentNotification(table, instance, created) ==
  IF ~created THEN table
  ELSE IF ~HasCreator(ContentObject(instance)) THEN table
  ELSE IF instance.user = ContentObject(instance).creator THEN table
  ELSE IF instance.parent # None THEN table
  ELSE Append(table, InteractionNotification("comment", instance))

\* The rows saved so far.
Saved == Cardinality(likes) + Cardinality(comments)

\* Like(...).save() of a new like: the INSERT, then post_save with
\* created = True.
SaveNewLike(user, key) ==
  /\ Saved < MaxCalls
  /\ LET instance == [id |-> Cardinality(likes) + 1, user |-> user,
                      content_type |-> key.content_type,
                      object_id |-> key.object_id]
     IN  /\ likes' = likes \cup {instance}
         /\ notifications' = CreateLikeNotification(notifications, instance, TRUE)
         /\ resp' = [kind |-> "post_save", sender |-> "Like",
                     instance |-> instance, created |-> TRUE]
  /\ UNCHANGED <<now, shows, reminders, articles, job, completed, comments, events>>
  /\ UNCHANGED walletVars

\* like.save() of a like that is in the table: the UPDATE, then post_save
\* with created = False.
SaveLikeAgain(instance) ==
  /\ instance \in likes
  /\ notifications' = CreateLikeNotification(notifications, instance, FALSE)
  /\ resp' = [kind |-> "post_save", sender |-> "Like",
              instance |-> instance, created |-> FALSE]
  /\ UNCHANGED <<now, shows, reminders, articles, job, completed, likes, comments, events>>
  /\ UNCHANGED walletVars

\* The comments a new comment can answer: none, or one on the same object.
Parents(key) ==
  {None} \cup {[id |-> c.id] : c \in {o \in comments :
                   o.content_type = key.content_type /\ o.object_id = key.object_id}}

\* Comment(...).save() of a new comment.
SaveNewComment(user, key, parent) ==
  /\ Saved < MaxCalls
  /\ LET instance == [id |-> Cardinality(comments) + 1, user |-> user,
                      content_type |-> key.content_type,
                      object_id |-> key.object_id, parent |-> parent]
     IN  /\ comments' = comments \cup {instance}
         /\ notifications' = CreateCommentNotification(notifications, instance, TRUE)
         /\ resp' = [kind |-> "post_save", sender |-> "Comment",
                     instance |-> instance, created |-> TRUE]
  /\ UNCHANGED <<now, shows, reminders, articles, job, completed, likes, events>>
  /\ UNCHANGED walletVars

\* comment.save() of a comment that is in the table.
SaveCommentAgain(instance) ==
  /\ instance \in comments
  /\ notifications' = CreateCommentNotification(notifications, instance, FALSE)
  /\ resp' = [kind |-> "post_save", sender |-> "Comment",
              instance |-> instance, created |-> FALSE]
  /\ UNCHANGED <<now, shows, reminders, articles, job, completed, likes, comments, events>>
  /\ UNCHANGED walletVars

\* Show s2 is made by another creator than show s1.
SignalInit ==
  /\ WalletInit
  /\ SocialInit
  /\ now = StartMinute
  /\ shows = [s \in ShowIds |->
                IF s = "s1" THEN PlainShow
                ELSE [PlainShow EXCEPT !.creator = OtherCreator]]
  /\ reminders = {}
  /\ notifications = <<>>
  /\ articles = [a \in ArticleIds |-> NewsRow("t0")]
  /\ job = [p \in Procs |-> IdleJob]
  /\ completed = [t \in Targets |-> 0]

SignalNext ==
  \/ \E user \in SocialUsers, key \in ContentKeys : SaveNewLike(user, key)
  \/ \E instance \in likes : SaveLikeAgain(instance)
  \/ \E user \in SocialUsers, key \in ContentKeys :
       \E parent \in Parents(key) : SaveNewComment(user, key, parent)
  \/ \E instance \in comments : SaveCommentAgain(instance)

SignalSpec == SignalInit /\ [][SignalNext]_vars

\* ------------------------- events/models.py and events/serializers.py
\* The properties of an Event, timezone.now() being t.
IsUpcoming(event, t) == event.start_datetime > t
IsOngoing(event, t) == event.start_datetime <= t /\ t <= event.end_datetime
IsPast(event, t) == event.end_datetime < t

\* Event.status
EventStatus(event, t) ==
  IF IsOngoing(event, t) THEN "ongoing"
  ELSE IF IsUpcoming(event, t) THEN "upcoming"
  ELSE "past"

\* EventCreateUpdateSerializer.validate, as far as the dates go: true when
\* no ValidationError is raised.  data holds the fields of the request.
Validate(data) ==
  IF "start_datetime" \in DOMAIN data /\ "end_datetime" \in DOMAIN data
    THEN ~(data.end_datetime <= data.start_datetime)
    ELSE TRUE

\* The date-times a request can give: three beats after the start of the
\* run.
EventTimes == {StartMinute + i * BeatMinutes : i \in {2, 4, 6}}

\* POST /api/events/: both dates are required.
CreateEvent(start_datetime, end_datetime) ==
  /\ events = {}
  /\ LET data == [start_datetime |-> start_datetime, end_datetime |-> end_datetime]
     IN  IF Validate(data)
           THEN /\ events' = {[id |-> 1, start_datetime |-> start_datetime,
                                end_datetime |-> end_datetime]}
                /\ resp' = [kind |-> "event.create", status |-> 201]
           ELSE /\ resp' = [kind |-> "event.create", status |-> 400]
                /\ UNCHANGED events
  /\ UNCHANGED <<likes, comments>>
  /\ UNCHANGED contentVars
  /\ UNCHANGED walletVars

\* PATCH /api/events/{id}/ with some of the two dates: serializer.save()
\* writes the fields given.
PartialUpdateEvent(event, data) ==
  /\ event \in events
  /\ IF Validate(data)
       THEN /\ events' = (events \ {event}) \cup
                           {[f \in DOMAIN event |->
                               IF f \in DOMAIN data THEN data[f] ELSE event[f]]}
            /\ resp' = [kind |-> "event.partial_update", status |-> 200]
       ELSE /\ resp' = [kind |-> "event.partial_update", status |-> 400]
            /\ UNCHANGED events
  /\ UNCHANGED <<likes, comments>>
  /\ UNCHANGED contentVars
  /\ UNCHANGED walletVars

\* The event serialized: its three flags and its status, read at one
\* instant.
RetrieveEvent(event) ==
  /\ event \in events
  /\ resp' = [kind |-> "event.retrieve", event |-> event, at |-> now,
              is_upcoming |-> IsUpcoming(event, now),
              is_ongoing |-> IsOngoing(event, now),
              is_past |-> IsPast(event, now),
              status |-> EventStatus(event, now)]
  /\ UNCHANGED socialVars
  /\ UNCHANGED contentVars
  /\ UNCHANGED walletVars

\* The requests that give none, one or both of the dates.
DateData == UNION {[given -> EventTimes] : given \in SUBSET {"start_datetime", "end_datetime"}}

EventNext ==
  \/ Beat
  \/ \E start_datetime, end_datetime \in EventTimes : CreateEvent(start_datetime, end_datetime)
  \/ \E event \in events, data \in DateData : PartialUpdateEvent(event, data)
  \/ \E event \in events : RetrieveEvent(event)

EventSpec == Init /\ [][EventNext]_vars

\* --------------------------------------------------- api/permissions.py
\* permissions.SAFE_METHODS of the framework, and the other methods.
SAFE_METHODS == {"GET", "HEAD", "OPTIONS"}
Methods == SAFE_METHODS \cup {"POST", "PUT", "PATCH", "DELETE"}

\* request.user: AnonymousUser (which has no role), or an account.
AnonymousUser == [id |-> "anonymous", is_authenticated |-> FALSE]
Account(id, role) == [id |-> id, is_authenticated |-> TRUE, role |-> role]
RequestUsers ==
  {AnonymousUser, Account(Creator, "creator"), Account(Fan, "user"),
   Account(OtherCreator, "creator")}

\* The objects a permission is asked about: any of the four owner fields
\* present or not, each present one holding an account or None.
OwnerFields == <<"creator", "author", "organizer", "user">>
Holders == {Account(Creator, "creator"), Account(Fan, "user"), None}
OwnedObjects ==
  UNION {[fields -> Holders] : fields \in SUBSET {OwnerFields[i] : i \in 1..Len(OwnerFields)}}

\* The owner looked for under 'author' before 'creator'.
IsOwnerOrReadOnlyAuthorFirst(request, obj) ==
  IF request.method \in SAFE_METHODS THEN TRUE
  ELSE IF "author" \in DOMAIN obj THEN obj.author = request.user
  ELSE IF "creator" \in DOMAIN obj THEN obj.creator = request.user
  ELSE IF "organizer" \in DOMAIN obj THEN obj.organizer = request.user
  ELSE IF "user" \in DOMAIN obj THEN obj.user = request.user
  ELSE FALSE

\* IsOwnerOrReadOnly.has_object_permission
IsOwnerOrReadOnly(request, obj) ==
  IF request.method \in SAFE_METHODS THEN TRUE
  ELSE IF "creator" \in DOMAIN obj THEN obj.creator = request.user
  ELSE IF "author" \in DOMAIN obj THEN obj.author = request.user
  ELSE IF "organizer" \in DOMAIN obj THEN obj.organizer = request.user
  ELSE IF "user" \in DOMAIN obj THEN obj.user = request.user
  ELSE FALSE

\* IsCreatorOrReadOnly.has_permission, as the framework reads its result
\* (true or not).
IsCreatorOrReadOnlyHasPermission(request) ==
  IF request.method \in SAFE_METHODS THEN TRUE
  ELSE IF request.method = "POST"
    THEN request.user.is_authenticated /\ request.user.role = "creator"
  ELSE request.user.is_authenticated

\* IsCreatorOrReadOnly.has_object_permission
IsCreatorOrReadOnlyHasObjectPermission(request, obj) ==
  IF request.method \in SAFE_METHODS THEN TRUE
  ELSE IF "creator" \in DOMAIN obj THEN obj.creator = request.user
  ELSE FALSE

\* One question to a permission class, the answer held in resp.
HasPermissionCall(method, user) ==
  /\ resp = NoResp
  /\ LET request == [method |-> method, user |-> user]
     IN  resp' = [kind |-> "has_permission", class |-> "IsCreatorOrReadOnly",
                  request |-> request,
                  granted |-> IsCreatorOrReadOnlyHasPermission(request)]
  /\ UNCHANGED walletVars
  /\ UNCHANGED contentVars
  /\ UNCHANGED socialVars

HasObjectPermissionCall(class, method, user, obj) ==
  /\ resp = NoResp
  /\ LET request == [method |-> method, user |-> user]
     IN  resp' = [kind |-> "has_object_permission", class |-> class,
                  request |-> request, obj |-> obj,
                  granted |-> IF class = "IsOwnerOrReadOnly"
                                THEN IsOwnerOrReadOnly(request, obj)
                                ELSE IsCreatorOrReadOnlyHasObjectPermission(request, obj)]
  /\ UNCHANGED walletVars
  /\ UNCHANGED contentVars
  /\ UNCHANGED socialVars

PermissionNext ==
  \/ \E method \in Methods, user \in RequestUsers : HasPermissionCall(method, user)
  \/ \E class \in {"IsOwnerOrReadOnly", "IsCreatorOrReadOnly"} :
       \E method \in Methods, user \in RequestUsers, obj \in OwnedObjects :
         HasObjectPermissionCall(class, method, user, obj)

PermissionSpec == Init /\ [][PermissionNext]_vars

\* ------------------ news/views.py and shows/views.py: get_queryset
\* A News row with the columns the list filters read.
NewsArticle(title, is_published, category, author_id) ==
  [title |-> title, slug |-> title, view_count |-> 0,
   is_published |-> is_published, category |-> category, author_id |-> author_id]

\* The query string: the parameters given, each with its text.
\* query_params.get(name) is None for a name not in DOMAIN.
QueryStrings(names, texts) == UNION {[given -> texts] : given \in SUBSET names}

\* str.lower() on the texts in use.
Lower(text) == IF text = "True" THEN "true" ELSE IF text = "False" THEN "false" ELSE text

\* NewsViewSet.get_queryset: the pks of the rows it returns.  The filter
\* on tags, left out, only narrows the result.
NewsGetQueryset(table, query_params, user) ==
  LET by_published ==
        IF "is_published" \in DOMAIN query_params
          THEN {pk \in DOMAIN table :
                  table[pk].is_published = (Lower(query_params.is_published) = "true")}
        ELSE IF ~user.is_authenticated
          THEN {pk \in DOMAIN table : table[pk].is_published}
        ELSE DOMAIN table
      by_category ==
        IF "category" \in DOMAIN query_params /\ query_params.category # ""
          THEN {pk \in by_published : table[pk].category = query_params.category}
        ELSE by_published
  IN  IF "author" \in DOMAIN query_params /\ query_params.author # ""
        THEN {pk \in by_category : table[pk].author_id = query_params.author}
      ELSE by_category

\* ShowViewSet.get_queryset: the slugs of the rows it returns.  The
\* filters on tags and day_of_week, left out, only narrow the result.
ShowGetQueryset(table, query_params, user) ==
  LET by_status ==
        IF "status" \in DOMAIN query_params /\ query_params.status # ""
          THEN {slug \in DOMAIN table : table[slug].status = query_params.status}
        ELSE IF ~user.is_authenticated
          THEN {slug \in DOMAIN table : table[slug].status = "published"}
        ELSE DOMAIN table
      by_creator ==
        IF "creator" \in DOMAIN query_params /\ query_params.creator # ""
          THEN {slug \in by_status : table[slug].creator = query_params.creator}
        ELSE by_status
  IN  IF "is_recurring" \in DOMAIN query_params
        THEN {slug \in by_creator :
                table[slug].is_recurring = (Lower(query_params.is_recurring) = "true")}
      ELSE by_creator

\* A list request, the rows of its queryset held in resp.
NewsListCall(user, query_params) ==
  /\ resp = NoResp
  /\ resp' = [kind |-> "news.get_queryset", user |-> user,
              query_params |-> query_params,
              queryset |-> NewsGetQueryset(articles, query_params, user)]
  /\ UNCHANGED walletVars
  /\ UNCHANGED contentVars
  /\ UNCHANGED socialVars

ShowListCall(user, query_params) ==
  /\ resp = NoResp
  /\ resp' = [kind |-> "shows.get_queryset", user |-> user,
              query_params |-> query_params,
              queryset |-> ShowGetQueryset(shows, query_params, user)]
  /\ UNCHANGED walletVars
  /\ UNCHANGED contentVars
  /\ UNCHANGED socialVars

\* A published and an unpublished article, a published show and a draft.
QueryInit ==
  /\ WalletInit
  /\ SocialInit
  /\ now = StartMinute
  /\ shows = [s \in ShowIds |->
                IF s = "s1" THEN PlainShow ELSE [PlainShow EXCEPT !.status = "draft"]]
  /\ reminders = {}
  /\ notifications = <<>>
  /\ articles = [a \in {"n1", "n2"} |->
                   IF a = "n1" THEN NewsArticle("t0", TRUE, "tech", Creator)
                   ELSE NewsArticle("t1", FALSE, "tech", Creator)]
  /\ job = [p \in Procs |-> IdleJob]
  /\ completed = [t \in Targets |-> 0]

QueryNext ==
  \/ \E user \in {AnonymousUser, Account(Fan, "user")} :
       \E query_params \in QueryStrings({"is_published", "category", "author"},
                                        {"", "true", "False", "tech", Creator}) :
         NewsListCall(user, query_params)
  \/ \E user \in {AnonymousUser, Account(Fan, "user")} :
       \E query_params \in QueryStrings({"status", "creator", "is_recurring"},
                                        {"", "true", "published", "draft", Creator}) :
         ShowListCall(user, query_params)

QuerySpec == QueryInit /\ [][QueryNext]_vars

\* ------------------------------------------- crypto_utils.py: the codec
\* Byte strings are sequences of numbers 0..255, texts sequences of
\* one-character strings.
C32_ALPHABET ==
  << "0", "1", "2", "3", "4", "5", "6", "7", "8", "9", "A", "B", "C", "D", "E",
     "F", "G", "H", "J", "K", "M", "N", "P", "Q", "R", "S", "T", "V", "W", "X",
     "Y", "Z" >>

AlphabetChars == {C32_ALPHABET[i] : i \in 1..Len(C32_ALPHABET)}

\* A lookup that takes a character outside the alphabet for the zero symbol.
AlphabetIndexLenient(char) ==
  IF char \in AlphabetChars
    THEN (CHOOSE i \in 1..Len(C32_ALPHABET) : C32_ALPHABET[i] = char) - 1
    ELSE 0

\* C32_ALPHABET.index(char), counted from 0; -1 stands for ValueError.
AlphabetIndex(char) ==
  IF char \in AlphabetChars
    THEN (CHOOSE i \in 1..Len(C32_ALPHABET) : C32_ALPHABET[i] = char) - 1
    ELSE -1

Reversed(seq) == [i \in 1..Len(seq) |-> seq[Len(seq) + 1 - i]]

\* int.from_bytes(data, byteorder='big')
RECURSIVE IntFromBytes(_)
IntFromBytes(data) ==
  IF data = <<>> THEN 0
  ELSE 256 * IntFromBytes(SubSeq(data, 1, Len(data) - 1)) + data[Len(data)]

\* num.to_bytes(byte_length, byteorder='big'), for a num that fits
RECURSIVE IntToBytes(_, _)
IntToBytes(num, byte_length) ==
  IF byte_length = 0 THEN <<>>
  ELSE Append(IntToBytes(num \div 256, byte_length - 1), num % 256)

\* The while loop of c32_encode: the digits of num, the lowest first.
RECURSIVE Base32Digits(_)
Base32Digits(num) ==
  IF num > 0 THEN <<C32_ALPHABET[(num % 32) + 1]>> \o Base32Digits(num \div 32)
  ELSE <<>>

\* c32_encode
C32Encode(data) ==
  IF data = <<>> THEN <<>>
  ELSE
    LET num == IntFromBytes(data)
        result == Base32Digits(num)
        expected_length == (Len(data) * 8) \div 5
        padded == IF Len(result) < expected_length
                    THEN result \o [i \in 1..(expected_length - Len(result))
                                      |-> C32_ALPHABET[1]]
                    ELSE result
    IN  Reversed(padded)

\* The for loop of c32_decode; -1 once a character is not in the alphabet.
RECURSIVE FoldChars(_)
FoldChars(encoded) ==
  IF encoded = <<>> THEN 0
  ELSE LET rest == FoldChars(SubSeq(encoded, 1, Len(encoded) - 1))
           index == AlphabetIndex(encoded[Len(encoded)])
       IN  IF rest < 0 \/ index < 0 THEN -1 ELSE rest * 32 + index

\* Whether num is too big for byte_length bytes (OverflowError of to_bytes).
RECURSIVE TooBig(_, _)
TooBig(num, byte_length) ==
  IF byte_length = 0 THEN num > 0 ELSE TooBig(num \div 256, byte_length - 1)

\* What a call returns: its value, or that it raised.
Returned(value) == [raised |-> FALSE, value |-> value]
Raised == [raised |-> TRUE, value |-> <<>>]

\* c32_decode: the bytes, or the error raised (ValueError of index,
\* OverflowError of to_bytes).
C32Decode(encoded) ==
  IF encoded = <<>> THEN Returned(<<>>)
  ELSE
    LET num == FoldChars(encoded)
        byte_length == (Len(encoded) * 5 + 7) \div 8
    IN  IF num < 0 THEN Raised
        ELSE IF TooBig(num, byte_length) THEN Raised
        ELSE Returned(IntToBytes(num, byte_length))

\* The byte values and characters the calls are made with: low, high and
\* boundary bytes; alphabet characters, the letters left out of the
\* alphabet, and lower case.
ByteValues == {0, 1, 31, 32, 128, 255}
CharValues == {"0", "1", "Z", "I", "L", "O", "U", "z", "a"}

RECURSIVE SeqsUpTo(_, _)
SeqsUpTo(S, n) ==
  IF n = 0 THEN {<<>>}
  ELSE LET shorter == SeqsUpTo(S, n - 1)
       IN  shorter \cup {Append(q, x) : q \in shorter, x \in S}

ByteStrings == SeqsUpTo(ByteValues, MaxBytes)
CharStrings == SeqsUpTo(CharValues, MaxChars)

\* A call of c32_encode.
C32EncodeCall(data) ==
  /\ resp' = [kind |-> "c32_encode", data |-> data, result |-> C32Encode(data)]
  /\ UNCHANGED <<clock, cache, issued, users, pc, req, cached, account, spent, usedAt>>
  /\ UNCHANGED contentVars
  /\ UNCHANGED socialVars

\* A call of c32_decode; a text that c32_encode just returned is decoded
\* next to the bytes it came from.
C32DecodeCall(encoded, data, round_trip) ==
  /\ resp' = [kind |-> "c32_decode", encoded |-> encoded, data |-> data,
              round_trip |-> round_trip, result |-> C32Decode(encoded)]
  /\ UNCHANGED <<clock, cache, issued, users, pc, req, cached, account, spent, usedAt>>
  /\ UNCHANGED contentVars
  /\ UNCHANGED socialVars

\* ---------------------------- crypto_utils.py: the codec on long input
\* The same two functions with the number held in binary (most significant
\* bit first), for byte strings whose number is beyond a machine integer.
ByteBits(b) ==
  << (b \div 128) % 2, (b \div 64) % 2, (b \div 32) % 2, (b \div 16) % 2,
     (b \div 8) % 2, (b \div 4) % 2, (b \div 2) % 2, b % 2 >>

\* int.from_bytes(data, byteorder='big'), in binary
RECURSIVE BitsFromBytes(_)
BitsFromBytes(data) ==
  IF data = <<>> THEN <<>>
  ELSE BitsFromBytes(SubSeq(data, 1, Len(data) - 1)) \o ByteBits(data[Len(data)])

\* The value of a few bits.
RECURSIVE BitsValue(_)
BitsValue(bits) ==
  IF bits = <<>> THEN 0
  ELSE 2 * BitsValue(SubSeq(bits, 1, Len(bits) - 1)) + bits[Len(bits)]

\* num > 0 is false
IsZero(bits) == \A i \in 1..Len(bits) : bits[i] = 0

\* num % 2^n
LowBits(bits, n) ==
  IF Len(bits) >= n THEN SubSeq(bits, Len(bits) - n + 1, Len(bits))
  ELSE [i \in 1..(n - Len(bits)) |-> 0] \o bits

\* num // 2^n
HighBits(bits, n) ==
  IF Len(bits) >= n THEN SubSeq(bits, 1, Len(bits) - n) ELSE <<>>

\* The while loop of c32_encode: the digits, least significant first.
RECURSIVE Base32DigitsWide(_)
Base32DigitsWide(bits) ==
  IF IsZero(bits) THEN <<>>
  ELSE <<C32_ALPHABET[BitsValue(LowBits(bits, 5)) + 1]>>
         \o Base32DigitsWide(HighBits(bits, 5))

\* c32_encode
C32EncodeWide(data) ==
  IF data = <<>> THEN <<>>
  ELSE
    LET result == Base32DigitsWide(BitsFromBytes(data))
        expected_length == (Len(data) * 8) \div 5
        padded == IF Len(result) < expected_length
                    THEN result \o [i \in 1..(expected_length - Len(result))
                                      |-> C32_ALPHABET[1]]
                    ELSE result
    IN  Reversed(padded)

\* The for loop of c32_decode: num * 32 + index, in binary.
RECURSIVE FoldCharsWide(_)
FoldCharsWide(encoded) ==
  IF encoded = <<>> THEN <<>>
  ELSE FoldCharsWide(SubSeq(encoded, 1, Len(encoded) - 1))
         \o LowBits(ByteBits(AlphabetIndex(encoded[Len(encoded)])), 5)

\* num.to_bytes(byte_length, byteorder='big') of a number of 8 * byte_length
\* bits
RECURSIVE BytesFromBits(_)
BytesFromBits(bits) ==
  IF bits = <<>> THEN <<>>
  ELSE BytesFromBits(HighBits(bits, 8)) \o <<BitsValue(LowBits(bits, 8))>>

\* A decoder that reads the least significant digit first.
C32DecodeWideBackwards(encoded) ==
  IF \E i \in 1..Len(encoded) : AlphabetIndex(encoded[i]) < 0 THEN Raised
  ELSE LET byte_length == (Len(encoded) * 5 + 7) \div 8
       IN  Returned(BytesFromBits(LowBits(FoldCharsWide(Reversed(encoded)),
                                          8 * byte_length)))

\* c32_decode; the number has 5 bits per character, which always fit
\* byte_length bytes, so to_bytes does not raise.
C32DecodeWide(encoded) ==
  IF encoded = <<>> THEN Returned(<<>>)
  ELSE IF \E i \in 1..Len(encoded) : AlphabetIndex(encoded[i]) < 0 THEN Raised
  ELSE LET byte_length == (Len(encoded) * 5 + 7) \div 8
       IN  Returned(BytesFromBits(LowBits(FoldCharsWide(encoded),
                                          8 * byte_length)))

\* ------------------------------- crypto_utils.py: the signature as text
HexDigits ==
  << "0", "1", "2", "3", "4", "5", "6", "7", "8", "9",
     "a", "b", "c", "d", "e", "f" >>
UpperHexDigits ==
  << "0", "1", "2", "3", "4", "5", "6", "7", "8", "9",
     "A", "B", "C", "D", "E", "F" >>

\* The value of a hexadecimal digit; -1 for any other character.
HexValue(char) ==
  IF \E i \in 1..16 : HexDigits[i] = char
    THEN (CHOOSE i \in 1..16 : HexDigits[i] = char) - 1
  ELSE IF \E i \in 1..16 : UpperHexDigits[i] = char
    THEN (CHOOSE i \in 1..16 : UpperHexDigits[i] = char) - 1
  ELSE -1

\* bytes.fromhex(text): ValueError on an odd number of digits or a character
\* that is no hexadecimal digit.
FromHex(text) ==
  IF Len(text) % 2 = 1 \/ \E i \in 1..Len(text) : HexValue(text[i]) < 0
    THEN Raised
    ELSE Returned([i \in 1..(Len(text) \div 2) |->
                     16 * HexValue(text[2 * i - 1]) + HexValue(text[2 * i])])

\* bytes.hex(): how a wallet writes signature bytes.
RECURSIVE HexText(_)
HexText(bytes) ==
  IF bytes = <<>> THEN <<>>
  ELSE HexText(SubSeq(bytes, 1, Len(bytes) - 1))
         \o <<HexDigits[(bytes[Len(bytes)] \div 16) + 1],
              HexDigits[(bytes[Len(bytes)] % 16) + 1]>>

\* signature[2:] if the text starts with 0x or 0X
StripPrefix(text) ==
  IF Len(text) >= 2 /\ text[1] = "0" /\ (text[2] = "x" \/ text[2] = "X")
    THEN SubSeq(text, 3, Len(text))
    ELSE text

\* A parser that keeps the leading 64 bytes of a longer value.
ParseKeepingLeadingBytes(signature) ==
  LET decoded == FromHex(StripPrefix(signature))
      sig_bytes == decoded.value
  IN  IF decoded.raised THEN None
      ELSE IF Len(sig_bytes) >= 64
        THEN [signature |-> SubSeq(sig_bytes, 1, 64), recovery_id |-> None]
      ELSE None

\* _parse_stacks_connect_signature on the text of the signature.
ParseStacksConnectSignatureText(signature) ==
  LET decoded == FromHex(StripPrefix(signature))
      sig_bytes == decoded.value
  IN  IF decoded.raised THEN None
      ELSE IF Len(sig_bytes) = 65
        THEN [signature |-> SubSeq(sig_bytes, 2, Len(sig_bytes)),
              recovery_id |-> None]
      ELSE IF Len(sig_bytes) = 64
        THEN [signature |-> sig_bytes, recovery_id |-> None]
      ELSE IF Len(sig_bytes) > 65
        THEN [signature |-> SubSeq(sig_bytes, Len(sig_bytes) - 63, Len(sig_bytes)),
              recovery_id |-> None]
      ELSE None

\* The signatures given to the parser: n bytes 1, 2, .., n written in
\* hexadecimal, after one of the prefixes, as they are or followed by one
\* more digit ("0x123") or by characters that are no digits.
SigBytes(n) == [i \in 1..n |-> i]
Prefixes == {<<>>, <<"0", "x">>, <<"0", "X">>}
Flaws == {"none", "odd", "nonhex"}
SignatureText(prefix, bytes, flaw) ==
  prefix \o HexText(bytes)
    \o (IF flaw = "odd" THEN <<"3">>
        ELSE IF flaw = "nonhex" THEN <<"z", "z">> ELSE <<>>)

\* What verify_stacks_signature sees of a signature text in the request
\* model: whether it is hexadecimal and how many bytes it holds.
SignatureOfText(signature) ==
  LET decoded == FromHex(StripPrefix(signature))
  IN  Signature(~decoded.raised, Len(decoded.value), NoKey, OtherMessage)

\* A call of _parse_stacks_connect_signature, and of verify_stacks_signature
\* with the same signature for a wallet and a text.
ParseCall(prefix, bytes, flaw) ==
  /\ LET signature == SignatureText(prefix, bytes, flaw)
     IN  resp' = [kind |-> "parse", prefix |-> prefix, bytes |-> bytes,
                  flaw |-> flaw, signature |-> signature,
                  result |-> ParseStacksConnectSignatureText(signature),
                  verified |-> \E a \in Addrs :
                    VerifyStacksSignature(a, OtherMessage,
                                          SignatureOfText(signature), "none")]
  /\ UNCHANGED <<clock, cache, issued, users, pc, req, cached, account, spent, usedAt>>
  /\ UNCHANGED contentVars
  /\ UNCHANGED socialVars

\* ------------------------- crypto_utils.py: recovery and verification
\* What the library does with one signature and digest: for each recovery id
\* from_signature_and_message returns some key or raises, and verify_compact
\* with a key returns true or false or raises.
RecoveryOutcomes == [0..3 -> Keys \cup {JunkKey, Raise}]
CompactOutcomes == [Keys \cup {JunkKey} -> {"true", "false", "raise"}]

\* A loop that gives up at the first recovery id that raises.
RECURSIVE RecoveryLoopStoppedByError(_, _, _)
RecoveryLoopStoppedByError(wallet_address, recovered, rec_id) ==
  IF rec_id > 3 THEN None
  ELSE IF recovered[rec_id] = Raise THEN None
  ELSE IF \E is_testnet \in BOOLEAN :
            DeriveStacksAddress(recovered[rec_id], is_testnet) = wallet_address
    THEN [public_key |-> recovered[rec_id], matched_recovery_id |-> rec_id]
  ELSE RecoveryLoopStoppedByError(wallet_address, recovered, rec_id + 1)

\* The loop "for rec_id in recovery_attempts" from rec_id on: public_key and
\* matched_recovery_id when it breaks, None when it runs out.
RECURSIVE RecoveryLoop(_, _, _)
RecoveryLoop(wallet_address, recovered, rec_id) ==
  IF rec_id > 3 THEN None
  ELSE IF recovered[rec_id] = Raise
    THEN RecoveryLoop(wallet_address, recovered, rec_id + 1)
  ELSE IF DeriveStacksAddress(recovered[rec_id], FALSE) = wallet_address
          \/ DeriveStacksAddress(recovered[rec_id], TRUE) = wallet_address
    THEN [public_key |-> recovered[rec_id], matched_recovery_id |-> rec_id]
  ELSE RecoveryLoop(wallet_address, recovered, rec_id + 1)

\* A verification that stops at the address match.
VerifyRecoveredByAddressOnly(wallet_address, recovered, compact) ==
  RecoveryLoop(wallet_address, recovered, 0) # None

\* verify_stacks_signature from the recovery loop on, for a signature that
\* parsed.
VerifyRecovered(wallet_address, recovered, compact) ==
  LET found == RecoveryLoop(wallet_address, recovered, 0)
  IN  IF found = None THEN FALSE
      ELSE IF compact[found.public_key] = "raise" THEN FALSE
      ELSE compact[found.public_key] = "true"

\* A call of verify_stacks_signature, seen from the recovery loop on.
RecoverCall(wallet_address, recovered, compact) ==
  /\ resp' = [kind |-> "recover", wallet_address |-> wallet_address,
              recovered |-> recovered, compact |-> compact,
              found |-> RecoveryLoop(wallet_address, recovered, 0),
              result |-> VerifyRecovered(wallet_address, recovered, compact)]
  /\ UNCHANGED <<clock, cache, issued, users, pc, req, cached, account, spent, usedAt>>
  /\ UNCHANGED contentVars
  /\ UNCHANGED socialVars

\* ------------------------------ crypto_utils.py: the address as text
\* RIPEMD160(SHA256(public_key)): 20 bytes per key, different keys having
\* different digests; one of them starts with zero bytes.
Hash160(public_key) ==
  IF public_key = "K1" THEN [i \in 1..20 |-> (17 * i + 3) % 256]
  ELSE IF public_key = "K2" THEN [i \in 1..20 |-> (200 + 7 * i * i) % 256]
  ELSE [i \in 1..20 |-> IF i < 3 THEN 0 ELSE (5 * i) % 256]

\* A number that depends on every byte of data and on their order.
RECURSIVE Digest(_)
Digest(data) ==
  IF data = <<>> THEN 7
  ELSE (Digest(SubSeq(data, 1, Len(data) - 1)) * 31 + data[Len(data)]) % 65521

\* sha256(sha256(versioned_hash)).digest()[:4]: 4 bytes that depend on every
\* byte of the input.
Checksum(versioned_hash) ==
  [j \in 1..4 |-> (Digest(versioned_hash) \div j) % 256]

\* An address whose version byte and prefix ignore the network.
DeriveMainnetOnly(public_key, testnet) ==
  LET versioned_hash == <<22>> \o Hash160(public_key)
  IN  <<"S", "P">> \o C32EncodeWide(versioned_hash \o Checksum(versioned_hash))

\* An address over version byte and hash160 alone.
DeriveWithoutChecksum(public_key, testnet) ==
  LET versioned_hash == <<IF testnet THEN 26 ELSE 22>> \o Hash160(public_key)
  IN  (IF testnet THEN <<"S", "T">> ELSE <<"S", "P">>) \o C32EncodeWide(versioned_hash)

\* derive_stacks_address, character by character
DeriveStacksAddressText(public_key, testnet) ==
  LET hash160 == Hash160(public_key)
      version == IF testnet THEN 26 ELSE 22
      versioned_hash == <<version>> \o hash160
      checksum == Checksum(versioned_hash)
      address == C32EncodeWide(versioned_hash \o checksum)
      prefix == IF testnet THEN <<"S", "T">> ELSE <<"S", "P">>
  IN  prefix \o address

\* Two calls of derive_stacks_address with the same key and flag, and one
\* with the other flag.
DeriveCall(public_key, testnet) ==
  /\ resp' = [kind |-> "derive", public_key |-> public_key, testnet |-> testnet,
              result |-> DeriveStacksAddressText(public_key, testnet),
              again |-> DeriveStacksAddressText(public_key, testnet),
              other |-> DeriveStacksAddressText(public_key, ~testnet)]
  /\ UNCHANGED <<clock, cache, issued, users, pc, req, cached, account, spent, usedAt>>
  /\ UNCHANGED contentVars
  /\ UNCHANGED socialVars

\* The recovery loop on an address given as text: derived_address ==
\* wallet_address compares the two texts.
RECURSIVE RecoveryLoopText(_, _, _)
RecoveryLoopText(wallet_address, recovered, rec_id) ==
  IF rec_id > 3 THEN None
  ELSE IF recovered[rec_id] = Raise
    THEN RecoveryLoopText(wallet_address, recovered, rec_id + 1)
  ELSE IF DeriveStacksAddressText(recovered[rec_id], FALSE) = wallet_address
          \/ DeriveStacksAddressText(recovered[rec_id], TRUE) = wallet_address
    THEN [public_key |-> recovered[rec_id], matched_recovery_id |-> rec_id]
  ELSE RecoveryLoopText(wallet_address, recovered, rec_id + 1)

\* verify_stacks_signature on an address given as text, for a signature
\* that parsed: the prefix test, the loop, verify_compact.
VerifyStacksSignatureText(wallet_address, recovered, compact) ==
  IF SubSeq(wallet_address, 1, 2) \notin {<<"S", "P">>, <<"S", "T">>} THEN FALSE
  ELSE LET found == RecoveryLoopText(wallet_address, recovered, 0)
       IN  IF found = None THEN FALSE
           ELSE IF compact[found.public_key] = "raise" THEN FALSE
           ELSE compact[found.public_key] = "true"

\* The addresses claimed as text: K1's mainnet address, the same without
\* its last character (the 41 characters of an address of the Stacks
\* network), and with one character more.
ClaimedTexts ==
  LET address == DeriveStacksAddressText("K1", FALSE)
  IN  {address, SubSeq(address, 1, Len(address) - 1), address \o <<"0">>}

\* verify_compact with one answer whatever the key.
SameForAllKeys == {[k \in Keys \cup {JunkKey} |-> answer] : answer \in {"true", "false", "raise"}}

VerifyTextCall(wallet_address, recovered, compact) ==
  /\ resp' = [kind |-> "verify_text", wallet_address |-> wallet_address,
              recovered |-> recovered, compact |-> compact,
              result |-> VerifyStacksSignatureText(wallet_address, recovered, compact)]
  /\ UNCHANGED <<clock, cache, issued, users, pc, req, cached, account, spent, usedAt>>
  /\ UNCHANGED contentVars
  /\ UNCHANGED socialVars

\* A call of one of the functions of crypto_utils.py on some input; after
\* c32_encode, c32_decode of its result.
CryptoNext ==
  \/ resp = NoResp /\ \E data \in ByteStrings : C32EncodeCall(data)
  \/ resp = NoResp /\ \E encoded \in CharStrings : C32DecodeCall(encoded, <<>>, FALSE)
  \/ resp.kind = "c32_encode" /\ C32DecodeCall(resp.result, resp.data, TRUE)
  \/ resp = NoResp /\ \E prefix \in Prefixes, n \in 0..MaxSigBytes, flaw \in Flaws :
       ParseCall(prefix, SigBytes(n), flaw)
  \/ resp = NoResp /\ \E a \in Addrs, recovered \in RecoveryOutcomes,
                          compact \in CompactOutcomes :
       RecoverCall(a, recovered, compact)
  \/ resp = NoResp /\ \E public_key \in Keys \cup {JunkKey}, testnet \in BOOLEAN :
       DeriveCall(public_key, testnet)
  \/ resp = NoResp /\ \E wallet_address \in ClaimedTexts, recovered \in RecoveryOutcomes,
                          compact \in SameForAllKeys :
       VerifyTextCall(wallet_address, recovered, compact)

CryptoSpec == Init /\ [][CryptoNext]_vars

\* ---------------------------------------------------------- vocabulary
\* The step is worker p's cache.get: p takes up a verify request.
Started(p) ==
  /\ pc[p] = "idle"
  /\ \/ pc'[p] = "read"
     \/ resp'.kind = "verify" /\ resp'.proc = p /\ resp'.cached = None

\* The request p took up in this step.
StartedReq(p) == IF pc'[p] = "read" THEN req'[p] ELSE resp'.req

\* In this step p answered with the "invalid or expired nonce" error.
RefusedNonce(p) ==
  /\ pc'[p] = "idle"
  /\ resp'.kind = "verify" /\ resp'.proc = p
  /\ resp'.status = 400 /\ resp'.error = ErrNonce

\* p read a challenge in this step and its request will be answered `error`.
WillFailWith(p, error) ==
  pc'[p] = "read" /\ FailedCheck(cached'[p], req'[p]) = error

\* The request carries the signature the wallet's own key makes over its message.
ValidlySigned(r) ==
  r.signature = SignedBy(OwnerKey(r.wallet_address), r.message) /\ r.fault = "none"

\* Request r submits the message of challenge n to the wallet n was issued to.
Submits(r, n) ==
  r.message = IssuedMessage(n) /\ r.wallet_address = issued[n].wallet

NoIssueAfter(wallet_address, k) ==
  \A m \in (k + 1)..Len(issued) : issued[m].wallet # wallet_address

\* The entry cache.get would return for the address now.
Stored(wallet_address) == CacheGet(cache, wallet_address)

Latest(n) == NoIssueAfter(issued[n].wallet, n)

\* ------------------------------------------------------------------ C1
\* C1: each issued challenge leads to at most one successful authentication:
\* a verify request returns 200 on a challenge only if no 200 was returned on
\* that challenge before (of two concurrent requests one succeeds).
C1_AtMostOneSuccess ==
  [][\A p \in Procs :
       (pc[p] = "create" /\ pc'[p] = "idle")
         => usedAt[cached[p].nonce].returned = 0]_vars

C4_NothingStoredAtReturn ==
  (resp.kind = "verify" /\ resp.cached # None)
    => Stored(resp.req.wallet_address) = None

\* C4 amended: a challenge a verify request read and deleted is never stored
\* again; when a verify request that found a challenge returns, nothing is
\* stored for the address unless a challenge was requested after its
\* cache.delete; and a request that starts afterwards with that challenge's
\* message does not succeed, whatever branch the first one took.
C4_SpentNotStored ==
  /\ \A a \in Addrs : Stored(a) # None => Stored(a).nonce \notin spent
  /\ (resp.kind = "verify" /\ resp.cached # None) =>
       LET a == resp.req.wallet_address
       IN  IF resp.status = 200
             THEN Stored(a) = None
                  \/ Stored(a).nonce > usedAt[resp.cached.nonce].deleted
             ELSE cache[a] = None

C4_ChallengeConsumed ==
  [][/\ C4_SpentNotStored'
     /\ \A p \in Procs : \A n \in 1..Len(issued) :
          (Started(p) /\ Submits(StartedReq(p), n) /\ n \in spent)
            => RefusedNonce(p) \/ WillFailWith(p, ErrMessage)]_vars

\* A retry with the right message and signature, after a request that failed
\* the signature check on that challenge, was just refused.
C4_Witness ==
  /\ resp.kind = "verify" /\ resp.error = ErrNonce
  /\ ValidlySigned(resp.req)
  /\ \E n \in 1..Len(issued) :
       Submits(resp.req, n) /\ n \in spent /\ usedAt[n].deleted = 0

\* ------------------------------------------------------------------ C5
\* C5: a verify request removes only the challenge it read: the newest
\* challenge of an address, while within its time to live and not read by any
\* request that went on to cache.delete, is stored.
C5_RemovesOnlyWhatItRead ==
  \A n \in 1..Len(issued) :
    (Latest(n) /\ clock < issued[n].timestamp + NONCE_EXPIRATION /\ n \notin spent)
      => (Stored(issued[n].wallet) # None /\ Stored(issued[n].wallet).nonce = n)

\* ------------------------------------------------------------------ C6
\* C6 as stated: once a second challenge was issued for A with the first
\* never consumed, a verify request submitting the first challenge's message
\* is answered with the message-mismatch error.
C6_OldMessageMismatch ==
  [][\A p \in Procs : \A n \in 1..Len(issued) :
       (Started(p) /\ Submits(StartedReq(p), n) /\ ~Latest(n) /\ n \notin spent)
         => WillFailWith(p, ErrMessage)]_vars

\* C6 amended: the stored challenge of an address is the one issued last for
\* it; a verify request submitting the message of an older challenge never
\* succeeds: message mismatch while a challenge is stored, "invalid or
\* expired nonce" when none is (consumed or expired).
C6_OnlyNewestStored ==
  \A a \in Addrs : Stored(a) # None =>
    /\ Stored(a).nonce \in 1..Len(issued)
    /\ issued[Stored(a).nonce].wallet = a /\ Latest(Stored(a).nonce)
    /\ Stored(a).message = IssuedMessage(Stored(a).nonce)

C6_OldMessageNeverSucceeds ==
  [][/\ C6_OnlyNewestStored'
     /\ \A p \in Procs : \A n \in 1..Len(issued) :
          (Started(p) /\ Submits(StartedReq(p), n) /\ ~Latest(n))
            => IF Stored(issued[n].wallet) # None
                 THEN WillFailWith(p, ErrMessage)
                 ELSE RefusedNonce(p)]_vars

\* The first challenge's message was just answered with message mismatch
\* against the second, stored one.
C6_Witness ==
  /\ resp.kind = "verify" /\ resp.error = ErrMessage
  /\ ValidlySigned(resp.req)
  /\ \E n \in 1..Len(issued) :
       Submits(resp.req, n) /\ ~Latest(n) /\ resp.cached.nonce > n

\* ------------------------------------------------------------------ C7
\* C7 as stated: no verify request returns 200 later than the issue time of
\* its challenge plus the time to live.
C7_NoSuccessAfterTTL ==
  (resp.kind = "verify" /\ resp.status = 200)
    => clock <= resp.cached.timestamp + NONCE_EXPIRATION

\* C7 amended: a verify request gets a challenge from the store only before
\* its issue time plus 300 s (it may return after that), and a request that
\* starts when every challenge of the address is at least 300 s old is
\* answered "invalid or expired nonce", as if none had been issued.
C7_ReadWithinTTL ==
  [][\A p \in Procs : Started(p) =>
       /\ pc'[p] = "read" =>
            /\ clock < cached'[p].timestamp + NONCE_EXPIRATION
            /\ issued[cached'[p].nonce].timestamp = cached'[p].timestamp
       /\ (\A n \in 1..Len(issued) :
             issued[n].wallet = StartedReq(p).wallet_address
               => clock >= issued[n].timestamp + NONCE_EXPIRATION)
            => RefusedNonce(p)]_vars

\* A validly signed request for an expired, never consumed challenge was just
\* refused.
C7_Witness ==
  /\ resp.kind = "verify" /\ resp.error = ErrNonce
  /\ ValidlySigned(resp.req)
  /\ \E n \in 1..Len(issued) :
       /\ Submits(resp.req, n) /\ n \notin spent
       /\ cache[issued[n].wallet] # None
       /\ cache[issued[n].wallet].value.nonce = n
       /\ clock >= issued[n].timestamp + NONCE_EXPIRATION

\* ------------------------------------------------------------------ C8
\* C8: every issued challenge eventually stops being stored, also when no
\* verify request consumes it and no new challenge replaces it.
IsStored(n) ==
  \E a \in Addrs : Stored(a) # None /\ Stored(a).nonce = n

C8_EventuallyRemoved ==
  \A n \in Challenges : IsStored(n) ~> ~IsStored(n)

\* A challenge nobody read or replaced has lapsed.
C8_Witness ==
  \E a \in Addrs :
    /\ cache[a] # None /\ cache[a].value.nonce \notin spent
    /\ Stored(a) = None
    /\ \A p \in Procs : cached[p] = None

\* ------------------------------------------------------------------ C9
\* C9: a request with a live challenge and the exact message whose signature
\* does not parse (such as "0x1234") gets an error other than the one given
\* for a well-formed but wrong signature.
C9_MalformedDistinct ==
  (/\ resp.kind = "verify" /\ resp.cached # None
   /\ resp.req.message = resp.cached.message
   /\ ParseStacksConnectSignature(resp.req.signature) = None)
    => resp.error # ErrSignature

\* ----------------------------------------------------------------- C10
\* C10: when the crypto library fails during verification for a reason
\* unrelated to the input, the response is not the invalid-signature one.
C10_FaultDistinct ==
  (/\ resp.kind = "verify" /\ resp.cached # None
   /\ resp.req.message = resp.cached.message
   /\ resp.req.fault # "none")
    => ~(resp.status = 401 /\ resp.error = ErrSignature)

\* ----------------------------------------------------------------- C11
\* C11: the response to a challenge request carries the message text, the
\* nonce and the time to live in seconds; the message names the wallet
\* address and the nonce returned is the one stored for the address.
C11_NonceReturned ==
  resp.kind = "nonce" =>
    /\ resp.status = 200
    /\ {"message", "nonce", "expires_in"} \subseteq DOMAIN resp.data
    /\ resp.data.expires_in = NONCE_EXPIRATION
    /\ resp.data.message.wallet = resp.wallet_address
    /\ Stored(resp.wallet_address) # None
    /\ resp.data.nonce = Stored(resp.wallet_address).nonce

\* ----------------------------------------------------------------- C12
\* C12: whatever the interleaving, the user table holds at most one account
\* per wallet address; a verify request that returns 200 reports is_new =
\* true exactly when it created the account, which it does only when the
\* address had none; and when the address already has an account the request
\* reports is_new = false, returns that account and creates nothing.
OneAccountPerAddress ==
  \A u, v \in users : u.stacks_address = v.stacks_address => u = v

C12_OneAccountPerAddress ==
  [][/\ OneAccountPerAddress'
     /\ users \subseteq users'
     /\ \A p \in Procs :
          (pc[p] = "create" /\ pc'[p] = "idle") =>
            LET a == req[p].wallet_address
                had == UserGet(users, a)
            IN  /\ resp'.status = 200
                /\ resp'.user \in users' /\ resp'.user.stacks_address = a
                /\ resp'.is_new <=> (users' # users)
                /\ IF had = None
                     THEN resp'.is_new /\ users' = users \cup {resp'.user}
                     ELSE ~resp'.is_new /\ users' = users /\ resp'.user = had]_vars

\* A second full cycle for an address that authenticated before has returned
\* the account with is_new = false.
C12_Witness ==
  /\ resp.kind = "verify" /\ resp.status = 200 /\ ~resp.is_new
  /\ resp.user \in users
  /\ \E n, m \in 1..Len(issued) :
       /\ n < m /\ resp.cached.nonce = m
       /\ issued[n].wallet = resp.req.wallet_address
       /\ usedAt[n].returned > 0 /\ usedAt[m].returned > 0

\* ----------------------------------------------------------------- C13
\* The request of the tests: a live challenge of a well-formed address, the
\* exact issued message, and the signature "0x" + "a" * 128.
MockRequestAnswered ==
  /\ resp.kind = "verify" /\ resp.cached # None
  /\ resp.req.message = resp.cached.message
  /\ resp.req.signature = MockSig

C14_RoundTrip ==
  (resp.kind = "c32_decode" /\ resp.round_trip)
    => (~resp.result.raised /\ resp.result.value = resp.data)

\* ----------------------------------------------------------------- C15
\* C15: c32_encode returns ceil(n * 8 / 5) characters for n bytes, and
\* c32_decode returns ceil(m * 5 / 8) bytes for m alphabet characters.
C15_Lengths ==
  /\ resp.kind = "c32_encode"
       => Len(resp.result) = (Len(resp.data) * 8 + 4) \div 5
  /\ (resp.kind = "c32_decode" /\ \A i \in 1..Len(resp.encoded) :
                                     resp.encoded[i] \in AlphabetChars)
       => /\ ~resp.result.raised
          /\ Len(resp.result.value) = (Len(resp.encoded) * 5 + 7) \div 8

\* ----------------------------------------------------------------- C16
\* C16: c32_decode raises an error exactly when its input holds a character
\* outside the alphabet, lower-case letters and I, L, O, U among them; on
\* alphabet characters alone it returns bytes.
C16_DecodeRejectsOutsideAlphabet ==
  resp.kind = "c32_decode" =>
    /\ resp.result.raised <=>
         \E i \in 1..Len(resp.encoded) : resp.encoded[i] \notin AlphabetChars
    /\ (\E i \in 1..Len(resp.encoded) :
          resp.encoded[i] \in {"I", "L", "O", "U", "a", "z"})
         => resp.result.raised

\* A text with a letter left out of the alphabet among alphabet characters
\* was refused.
C16_Witness ==
  /\ resp.kind = "c32_decode" /\ resp.result.raised
  /\ Len(resp.encoded) > 1
  /\ \E i, j \in 1..Len(resp.encoded) :
       /\ resp.encoded[i] \in {"I", "L", "O", "U"}
       /\ resp.encoded[j] \in AlphabetChars

\* ----------------------------------------------------------------- C17
\* C17: with or without a 0x/0X prefix, a signature that is not hexadecimal
\* fails to parse; 65 bytes give their last 64, 64 bytes are kept, more
\* than 65 give their trailing 64, fewer than 64 fail; every parse that
\* succeeds returns 64 bytes and no recovery id; and a signature that does
\* not parse, such as "0x123", does not verify.
C17_ParseRules ==
  resp.kind = "parse" =>
    LET n == Len(resp.bytes)
    IN  /\ resp.flaw # "none" => resp.result = None
        /\ (resp.flaw = "none" /\ n < 64) => resp.result = None
        /\ (resp.flaw = "none" /\ n >= 64) =>
             /\ resp.result # None
             /\ resp.result.recovery_id = None
             /\ Len(resp.result.signature) = 64
             /\ \A i \in 1..64 : resp.result.signature[i] = resp.bytes[n - 64 + i]
        /\ (resp.result = None)
             <=> (ParseStacksConnectSignature(SignatureOfText(resp.signature)) = None)
        /\ resp.result = None => ~resp.verified

\* A 65-byte signature with a prefix was parsed to its last 64 bytes.
C17_Witness ==
  /\ resp.kind = "parse" /\ resp.prefix # <<>> /\ resp.flaw = "none"
  /\ Len(resp.bytes) = 65
  /\ resp.result # None
  /\ resp.result.signature = SubSeq(resp.bytes, 2, 65)

\* ----------------------------------------------------------------- C18
\* Recovery id i gives a key whose mainnet or testnet address is the claimed
\* one.
Matches(i) ==
  /\ resp.recovered[i] # Raise
  /\ \E is_testnet \in BOOLEAN :
       DeriveStacksAddress(resp.recovered[i], is_testnet) = resp.wallet_address

\* C18: the recovery ids 0, 1, 2, 3 are tried in order, each recovered key
\* against its mainnet and its testnet address; an id whose recovery raises
\* is skipped; the first id that matches is taken, and no candidate is found
\* only if none of the ids matches.
C18_RecoverySearch ==
  resp.kind = "recover" =>
    IF \E i \in 0..3 : Matches(i)
      THEN /\ resp.found # None
           /\ Matches(resp.found.matched_recovery_id)
           /\ \A j \in 0..3 : Matches(j) => resp.found.matched_recovery_id <= j
           /\ resp.found.public_key = resp.recovered[resp.found.matched_recovery_id]
      ELSE resp.found = None /\ ~resp.result

\* Recovery raised for ids 0 and 1, and the key of id 2 matched on testnet.
C18_Witness ==
  /\ resp.kind = "recover"
  /\ resp.recovered[0] = Raise /\ resp.recovered[1] = Raise
  /\ resp.found # None /\ resp.found.matched_recovery_id = 2
  /\ resp.wallet_address = DeriveStacksAddress(resp.found.public_key, TRUE)

\* ----------------------------------------------------------------- C19
\* C19: verify_stacks_signature returns true only if a recovered key derives
\* the claimed address and verify_compact with that key returns true; when
\* the first matching key fails verify_compact the result is false,
\* whatever later ids would give; and when no recovered key belongs to the
\* claimed address the result is false.
C19_AddressAndCompact ==
  resp.kind = "recover" =>
    /\ resp.result <=>
         /\ resp.found # None
         /\ resp.compact[resp.found.public_key] = "true"
    /\ resp.result =>
         /\ resp.found.public_key = OwnerKey(resp.wallet_address)
         /\ \E i \in 0..3 : resp.recovered[i] = resp.found.public_key
    /\ (\A i \in 0..3 : resp.recovered[i] # OwnerKey(resp.wallet_address))
         => ~resp.result

\* The key that matched the address failed verify_compact and the call
\* returned false.
C19_Witness ==
  /\ resp.kind = "recover" /\ ~resp.result
  /\ resp.found # None
  /\ resp.compact[resp.found.public_key] = "false"

C21_AddressRoundTrip ==
  /\ resp.kind = "derive" =>
       LET version == IF resp.testnet THEN 26 ELSE 22
           versioned_hash == <<version>> \o Hash160(resp.public_key)
           prefix == SubSeq(resp.result, 1, 2)
           decoded == C32DecodeWide(SubSeq(resp.result, 3, Len(resp.result)))
       IN  /\ ~decoded.raised
           /\ Len(decoded.value) = 25
           /\ decoded.value = versioned_hash \o Checksum(versioned_hash)
           /\ prefix \o C32EncodeWide(decoded.value) = resp.result
  /\ resp.kind = "c32_encode" => C32EncodeWide(resp.data) = resp.result
  /\ resp.kind = "c32_decode" => C32DecodeWide(resp.encoded) = resp.result

\* An address of 2 + 40 characters was derived for the key whose hash160
\* starts with zero bytes.
C21_Witness ==
  /\ resp.kind = "derive" /\ resp.public_key = JunkKey
  /\ Len(resp.result) = 42
  /\ ~C32DecodeWide(SubSeq(resp.result, 3, Len(resp.result))).raised

\* ----------------------------------------------------------------- C22
\* The text starts with SP or ST.
HasNetworkPrefix(wallet_address) == wallet_address[1] \in {"SP", "ST"}

\* C22: a challenge request for a text without the SP/ST prefix is answered
\* 400 InvalidAddress and stores no challenge; a verify request for such a
\* text never succeeds (no signature over any message verifies for it, no
\* 200 response, no account).
C22_InvalidAddress ==
  /\ \A a \in AllAddrs : ~HasNetworkPrefix(a) => cache[a] = None
  /\ \A u \in users : HasNetworkPrefix(u.stacks_address)
  /\ (resp.kind = "nonce" /\ ~HasNetworkPrefix(resp.wallet_address))
       => resp.status = 400 /\ resp.data.error = ErrInvalidAddress
  /\ (resp.kind = "verify" /\ ~HasNetworkPrefix(resp.req.wallet_address))
       => /\ resp.status # 200 /\ resp.user = None
          /\ \A m \in MessageInputs : \A s \in SignatureInputs(m) :
               ~VerifyStacksSignature(resp.req.wallet_address, m, s, "none")

\* While a challenge of another wallet was stored, a verify request for the
\* text without prefix, with a message that was issued and its key's
\* signature, was refused.
C22_Witness ==
  /\ resp.kind = "verify" /\ resp.req.wallet_address = BadAddr
  /\ resp.req.message \in IssuedMessages
  /\ resp.req.signature = SignedBy("K1", resp.req.message)
  /\ resp.status = 400
  /\ \E a \in Addrs : cache[a] # None

\* ----------------------------------------------------------------- C23
\* C23: the first failing check decides the error of a verify response: no
\* challenge read, then another message than the stored one, then the stored
\* nonce missing from the message, then the signature. A wrong message with a
\* malformed signature is answered "message does not match", and a request
\* that read no challenge "invalid or expired nonce", whatever its message
\* and signature.
C23_CheckOrder ==
  resp.kind = "verify" =>
    LET r == resp.req
        verified == VerifyStacksSignature(r.wallet_address, r.message,
                                          r.signature, r.fault)
    IN  IF resp.cached = None
          THEN resp.status = 400 /\ resp.error = ErrNonce
        ELSE IF resp.cached.message # r.message
          THEN resp.status = 400 /\ resp.error = ErrMessage
        ELSE IF resp.cached.nonce # r.message.nonce
          THEN resp.status = 400 /\ resp.error = ErrNonceInMessage
        ELSE IF ~verified
          THEN resp.status = 401 /\ resp.error = ErrSignature
        ELSE resp.status = 200 /\ resp.error = ""

\* A request with another text than the stored message and the 2-byte
\* signature was answered "message does not match".
C23_Witness ==
  /\ resp.kind = "verify" /\ resp.cached # None
  /\ resp.req.message # resp.cached.message
  /\ resp.req.signature = ShortSig
  /\ resp.error = ErrMessage

\* A request that read no challenge, with a text never issued and the
\* 2-byte signature, was answered "invalid or expired nonce".
C23_WitnessNoChallenge ==
  /\ resp.kind = "verify" /\ resp.cached = None
  /\ resp.req.message = OtherMessage /\ resp.req.signature = ShortSig
  /\ resp.error = ErrNonce

\* ----------------------------------------------------------------- C24
\* C24: the message stored with a challenge is the message returned to the
\* caller and holds the stored nonce and the wallet address; so a submitted
\* message equal to the stored one holds the stored nonce, and no verify
\* response is "invalid nonce in message".
C24_NonceInMessage ==
  /\ \A a \in AllAddrs : Stored(a) # None =>
       /\ Stored(a).message.nonce = Stored(a).nonce
       /\ Stored(a).message.wallet = a
  /\ (resp.kind = "nonce" /\ resp.status = 200) =>
       /\ Stored(resp.wallet_address) # None
       /\ Stored(resp.wallet_address).message = resp.data.message
  /\ \A p \in Procs : (cached[p] # None /\ cached[p].message = req[p].message)
       => cached[p].nonce = req[p].message.nonce
  /\ resp.kind = "verify" => resp.error # ErrNonceInMessage

\* A request whose message was the stored one went on to the signature
\* check and was refused there.
C24_Witness ==
  /\ resp.kind = "verify" /\ resp.cached # None
  /\ resp.cached.message = resp.req.message
  /\ resp.error = ErrSignature

\* ----------------------------------------------------------------- C25
\* Worker p holds a request whose message is the stored one and whose
\* signature verified, and has called cache.delete for its challenge.
VerifiedAndDeleted(p) ==
  /\ cached[p] # None /\ cached[p].message = req[p].message
  /\ VerifyStacksSignature(req[p].wallet_address, req[p].message,
                           req[p].signature, req[p].fault)
  /\ cached[p].nonce \in spent
  /\ usedAt[cached[p].nonce].deleted > 0

\* C25: on the success path the signature is verified, then the challenge
\* deleted, then the account looked up or created, then the credentials
\* issued with the response; a verify call that fails a check leaves the
\* User table as it was and issues no credentials.
C25_SuccessOrder ==
  [][/\ \A p \in Procs :
          /\ pc'[p] \in {"lookup", "create"} => VerifiedAndDeleted(p)'
          /\ (pc[p] = "read" /\ pc'[p] = "lookup")
               => cache'[req[p].wallet_address] = None
          /\ pc'[p] = "create" => pc[p] \in {"lookup", "create"}
     /\ users' # users =>
          \E p \in Procs : /\ pc[p] = "create" /\ VerifiedAndDeleted(p)
                            /\ account[p] = None
                            /\ resp'.kind = "verify" /\ resp'.status = 200
     /\ (resp'.kind = "verify" /\ resp'.status = 200) =>
          /\ pc[resp'.proc] = "create" /\ VerifiedAndDeleted(resp'.proc)
          /\ resp'.user \in users'
          /\ resp'.tokens = RefreshTokenForUser(resp'.user)
     /\ (resp'.kind = "verify" /\ resp'.status # 200) =>
          /\ users' = users
          /\ resp'.user = None /\ resp'.tokens = None
          /\ pc'[resp'.proc] = "idle"]_vars

\* A verify call was refused for its signature while the account of the
\* wallet was not there, and the table stayed empty.
C25_Witness ==
  /\ resp.kind = "verify" /\ resp.error = ErrSignature
  /\ resp.tokens = None
  /\ users = {}

\* A verify call created the account and returned its credentials.
C25_WitnessSuccess ==
  /\ resp.kind = "verify" /\ resp.status = 200 /\ resp.is_new
  /\ resp.tokens # None /\ resp.user \in users

\* ----------------------------------------------------------------- C26
\* C26: a step of a challenge request or of a verify request for one wallet
\* address, passed or failed, in any interleaving with the requests for
\* other addresses, leaves the stored challenge of every other address as
\* it was.
C26_PerAddressIsolation ==
  [][\A b \in AllAddrs : cache'[b] # cache[b] =>
        \/ /\ resp'.kind = "nonce" /\ resp'.wallet_address = b
           /\ Len(issued') = Len(issued) + 1
           /\ \A p \in Procs : pc'[p] = pc[p]
        \/ \E p \in Procs :
             /\ pc[p] = "read" /\ pc'[p] # "read"
             /\ req[p].wallet_address = b
             /\ \A q \in Procs \ {p} : pc'[q] = pc[q]]_vars

\* A verify request for one address read its challenge and was refused,
\* the challenge is gone, and the challenge of another address is stored
\* while a request for that other address is in hand.
C26_Witness ==
  /\ resp.kind = "verify" /\ resp.cached # None /\ resp.status = 401
  /\ cache[resp.req.wallet_address] = None
  /\ \E b \in AllAddrs \ {resp.req.wallet_address} :
       /\ cache[b] # None
       /\ \E q \in Procs : pc[q] = "read" /\ req[q].wallet_address = b

\* ----------------------------------------------------------------- C29
\* C29: when no track_share call on a show is in hand, the share_count of
\* the show is the number of calls completed on it; the count a response
\* reports includes its call, is no more than the calls completed, and is
\* their number when no other call is in hand.
C29_EveryShareCounted ==
  /\ \A slug \in ShowIds :
       (\A p \in Procs : job[p].op = "track_share" => job[p].target # slug)
         => shows[slug].share_count = completed[slug]
  /\ resp.kind = "track_share" =>
       /\ resp.share_count >= 1
       /\ resp.share_count <= completed[resp.target]
       /\ (\A p \in Procs : job[p].op = "track_share" => job[p].target # resp.target)
            => resp.share_count = completed[resp.target]

\* ----------------------------------------------------------------- C30
\* C30: the view_count of an article is the number of increment_view calls
\* whose save has run, so the number of completed calls once none is in
\* hand; and the save of an increment_view call changes no other field of
\* the row.
C30_EveryViewCounted ==
  [][/\ \A pk \in ArticleIds :
          /\ articles'[pk].view_count
               = completed'[pk]
                   + Cardinality({p \in Procs : /\ job'[p].op = "increment_view"
                                                /\ job'[p].target = pk
                                                /\ job'[p].at = "refresh"})
          /\ (\A p \in Procs : job'[p] = IdleJob)
               => articles'[pk].view_count = completed'[pk]
     /\ \A p \in Procs :
          (job[p].op = "increment_view" /\ job[p].at = "save"
             /\ job'[p].at = "refresh")
            => articles' = [articles EXCEPT ![job[p].target].view_count = @ + 1]
     /\ resp'.kind = "increment_view" =>
          /\ resp'.view_count >= 1
          /\ resp'.view_count = articles'[resp'.target].view_count]_vars

\* Two calls have run to the end, the second reported 2, and the author
\* changed the title meanwhile.
C30_Witness ==
  /\ resp.kind = "increment_view" /\ resp.view_count = 2
  /\ completed[resp.target] = 2
  /\ articles[resp.target].title # "t0"
  /\ \A p \in Procs : job[p] = IdleJob

\* ----------------------------------------------------------------- C27
\* C27: over the runs of check_upcoming_shows no show instance (show and
\* scheduled datetime) has two ShowReminder rows, there is one
\* 'show_reminder' notification per reminder, and a show that is not
\* recurring, not published, or without scheduled time or recurrence type
\* has no reminder.
C27_OneReminderPerInstance ==
  /\ \A r1, r2 \in reminders :
       (r1.show = r2.show /\ r1.scheduled_for = r2.scheduled_for) => r1 = r2
  /\ Cardinality({i \in 1..Len(notifications) :
                    notifications[i].notification_type = "show_reminder"})
       = Cardinality(reminders)
  /\ \A r \in reminders :
       /\ shows[r.show].is_recurring /\ shows[r.show].status = "published"
       /\ shows[r.show].scheduled_time # NoTime
       /\ shows[r.show].recurrence_type # NoRecurrence
       /\ 25 <= r.scheduled_for - r.reminder_sent_at
       /\ r.scheduled_for - r.reminder_sent_at <= 35

\* A run 25 minutes before a show created nothing: the reminder of the
\* instance is there since the run 35 minutes before it.
C27_Witness ==
  /\ resp.kind = "check_upcoming_shows" /\ resp.created = 0
  /\ \E r \in reminders : /\ r.scheduled_for = now + 25
                           /\ r.reminder_sent_at = now - 10

\* ----------------------------------------------------------------- C28
\* C28: a turn of the auto-cancel task never changes a reminder that
\* respond_to_reminder has set to CONFIRMED; and when a run of the task ends
\* no reminder that was due at its start is PENDING, each of those it
\* cancelled having got one 'show_cancelled' notification.
C28_ConfirmedNotCancelled ==
  [][\A p \in Procs :
       (job[p].op = "auto_cancel" /\ job'[p] # job[p]) =>
         /\ \A r \in reminders : r.creator_response = "CONFIRMED" => r \in reminders'
         /\ job[p].todo # <<>> =>
              /\ Len(notifications') = Len(notifications) + 1
              /\ notifications'[Len(notifications')].notification_type
                   = "show_cancelled"
         /\ job'[p] = IdleJob =>
              \A r \in reminders' :
                r.scheduled_for <= job[p].now_at => r.creator_response # "PENDING"]_vars

\* ----------------------------------------------------------------- C31
\* C31: the Notification table grows only in a save that inserts a Like or
\* Comment (post_save with created = True of a row that was not in its
\* table), by one row, only when the target has a creator, never for a
\* reply, and the new row has the creator of the target as recipient, the
\* liking or commenting user as actor, and recipient other than actor; a
\* later save of a row adds nothing.
C31_NotificationOnlyWhenCreated ==
  [][/\ (resp'.kind = "post_save" /\ ~resp'.created) => notifications' = notifications
     /\ notifications' # notifications =>
          LET instance == resp'.instance
              n == notifications'[Len(notifications')]
          IN  /\ resp'.kind = "post_save"
              /\ resp'.created
              /\ instance \notin likes \cup comments
              /\ instance \in likes' \cup comments'
              /\ notifications' = Append(notifications, n)
              /\ HasCreator(ContentObject(instance))
              /\ n.recipient = ContentObject(instance).creator
              /\ n.actor = instance.user
              /\ n.recipient # n.actor
              /\ n.notification_type = (IF resp'.sender = "Like" THEN "like" ELSE "comment")
              /\ resp'.sender = "Comment" => instance.parent = None]_vars

\* A like of a show by someone else than its creator has been saved a
\* second time, and the table holds the one notification of its insert.
C31_Witness ==
  /\ resp.kind = "post_save"
  /\ ~resp.created
  /\ resp.sender = "Like"
  /\ HasCreator(ContentObject(resp.instance))
  /\ resp.instance.user # ContentObject(resp.instance).creator
  /\ Len(notifications) = 1

\* ----------------------------------------------------------------- C32
\* C32: IsOwnerOrReadOnly grants a request exactly when its method is safe
\* or the requesting user is the object's owner, the owner being the value
\* of the first of creator, author, organizer, user the object has (none of
\* them: never writable).  IsCreatorOrReadOnly grants a POST only to an
\* authenticated user of role 'creator', and an object-level write only to
\* the object's creator.
C32_OwnerOrReadOnly ==
  /\ (resp.kind = "has_object_permission" /\ resp.class = "IsOwnerOrReadOnly") =>
       (resp.granted <=>
          \/ resp.request.method \in {"GET", "HEAD", "OPTIONS"}
          \/ \E i \in 1..4 :
               /\ OwnerFields[i] \in DOMAIN resp.obj
               /\ \A j \in 1..(i - 1) : OwnerFields[j] \notin DOMAIN resp.obj
               /\ resp.obj[OwnerFields[i]] = resp.request.user)
  /\ (resp.kind = "has_permission" /\ resp.request.method = "POST" /\ resp.granted) =>
       /\ resp.request.user.is_authenticated
       /\ resp.request.user.role = "creator"
  /\ (resp.kind = "has_object_permission" /\ resp.class = "IsCreatorOrReadOnly"
        /\ resp.request.method \notin {"GET", "HEAD", "OPTIONS"} /\ resp.granted) =>
       /\ "creator" \in DOMAIN resp.obj
       /\ resp.obj.creator = resp.request.user

\* A write was asked of IsOwnerOrReadOnly by the author of an object whose
\* creator is someone else, and refused.
C32_Witness ==
  /\ resp.kind = "has_object_permission"
  /\ resp.class = "IsOwnerOrReadOnly"
  /\ resp.request.method = "DELETE"
  /\ DOMAIN resp.obj = {"creator", "author"}
  /\ resp.obj.author = resp.request.user
  /\ resp.obj.creator # resp.request.user
  /\ ~resp.granted

\* ----------------------------------------------------------------- C33
\* C33: whatever the query parameters, the news queryset of an
\* unauthenticated request holds no article with is_published = false, and
\* the shows queryset of an unauthenticated request holds no show whose
\* status is not 'published'.
C33_AnonymousSeesPublishedOnly ==
  /\ (resp.kind = "news.get_queryset" /\ ~resp.user.is_authenticated) =>
       \A pk \in resp.queryset : articles[pk].is_published
  /\ (resp.kind = "shows.get_queryset" /\ ~resp.user.is_authenticated) =>
       \A slug \in resp.queryset : shows[slug].status = "published"

\* ----------------------------------------------------------------- C34
\* C34: whenever no respond_to_reminder call and no run of the auto-cancel
\* task is under way, the date of a reminder is in the cancelled_instances
\* of its show if and only if the reminder's creator_response is CANCELLED.
\* (cancelled_instances is held as a set of dates: either handler appends a
\* date only after testing that it is not in the list it holds.)
C34_CancelledInstancesConsistent ==
  (\A p \in Procs : job[p] = IdleJob) =>
    \A r \in reminders :
      DateOf(r.scheduled_for) \in shows[r.show].cancelled_instances
        <=> r.creator_response = "CANCELLED"

\* ----------------------------------------------------------------- C35
\* C35: the account step of verify never ends in an error, and no two
\* accounts have the same username: in particular two wallets whose
\* addresses begin with the same 8 characters get two accounts with
\* distinct usernames, one after the other or side by side.
C35_NoUsernameCollision ==
  /\ \A u1, u2 \in users : u1.username = u2.username => u1 = u2
  /\ resp.kind = "verify.account" => resp.status = 200

C36_WitnessFullAddress ==
  /\ resp.kind = "verify_text"
  /\ Len(resp.wallet_address) = 42
  /\ resp.result

\* ----------------------------------------------------------------- C37
\* C37: at every instant, for every event, exactly one of is_upcoming,
\* is_ongoing and is_past is true and status names that one; and while
\* time advances over an event that is not edited, its status goes from
\* upcoming to ongoing to past and never back.
StatusRank(status) == IF status = "upcoming" THEN 1 ELSE IF status = "ongoing" THEN 2 ELSE 3

C37_ExactlyOneStatus ==
  [][/\ \A event \in events' :
          /\ Cardinality({flag \in {"upcoming", "ongoing", "past"} :
                 \/ flag = "upcoming" /\ IsUpcoming(event, now')
                 \/ flag = "ongoing" /\ IsOngoing(event, now')
                 \/ flag = "past" /\ IsPast(event, now')}) = 1
          /\ EventStatus(event, now') = "upcoming" <=> IsUpcoming(event, now')
          /\ EventStatus(event, now') = "ongoing" <=> IsOngoing(event, now')
          /\ EventStatus(event, now') = "past" <=> IsPast(event, now')
     /\ events' = events =>
          \A event \in events :
            StatusRank(EventStatus(event, now')) >= StatusRank(EventStatus(event, now))]_vars

====
